---- MODULE Spec2Model ----
(***************************************************************************)
(* Model of the EDM composition core of ml-sync:                           *)
(*   - the drum pattern grid and its library / variation operators         *)
(*     (src/src/models/drum_pattern_generator.py),                         *)
(*   - the arrangement and mix code of generate_edm_local                  *)
(*     (src/api_server.py).                                                *)
(* Floating point values are held as fixed point integers; the unit is     *)
(* stated at each definition.                                              *)
(***************************************************************************)
EXTENDS Integers, Sequences, FiniteSets, TLC

(***************************************************************************)
(* Bounds of the model.                                                    *)
(***************************************************************************)
\* largest step count of a pattern created in the model
MaxSteps == 2
\* number of operations of one behaviour of the pattern model
MaxOps == 2

(***************************************************************************)
(* DrumType (IntEnum) and the grid width.                                  *)
(***************************************************************************)
KICK == 0
SNARE == 1
CLAP == 2
HIHAT_CLOSED == 3
HIHAT_OPEN == 4
CRASH == 5
TOM_HIGH == 7
TOM_MID == 8
TOM_LOW == 9
\* DrumPattern.__init__(steps, num_drums = 11)
NumDrums == 11
\* largest MIDI velocity, the upper clamp of add_hit
MaxVelocity == 127

Drums == 0 .. (NumDrums - 1)

(***************************************************************************)
(* Numeric helpers.                                                        *)
(***************************************************************************)
Min2(a, b) == IF a <= b THEN a ELSE b
Max2(a, b) == IF a >= b THEN a ELSE b
Abs(a) == IF a < 0 THEN 0 - a ELSE a

\* Python int(x) / numpy astype(int): truncation toward zero of n / d, d > 0
TruncDiv(n, d) == IF n >= 0 THEN n \div d ELSE 0 - ((0 - n) \div d)

(***************************************************************************)
(* Grids.  A grid is a function from <<step, drum>> to a velocity.         *)
(***************************************************************************)
Cells(steps) == (0 .. (steps - 1)) \X Drums

\* np.zeros((steps, num_drums), dtype=np.int16)
ZeroGrid(steps) == [c \in Cells(steps) |-> 0]

(***************************************************************************)
(* The random module: a deterministic generator with one hidden state     *)
(* shared by every caller in the process.  The Mersenne Twister is held   *)
(* as a small linear congruential generator; a draw returns the value and  *)
(* the next state.  random.random() is in hundredths, in [0, 100).         *)
(* The values a state yields span the whole range of the draw.            *)
(***************************************************************************)
\* number of states of the generator
RngMod == 2

RngNext(x) == (x + 1) % RngMod
\* the state after n draws
RECURSIVE RngAdvance(_, _)
RngAdvance(x, n) == IF n = 0 THEN x ELSE RngAdvance(RngNext(x), n - 1)
\* random.random() read from state x, in hundredths
RandomOf(x) == (x * 99) \div (RngMod - 1)
\* random.randint(a, b) read from state x: a <= result <= b
RandIntOf(x, a, b) == a + ((x * (b - a)) \div (RngMod - 1))
\* random.seed(seed)
RngSeed(seed) == seed % RngMod

(***************************************************************************)
(* DrumPattern: pure parts.                                                *)
(***************************************************************************)
\* add_hit's clamp: min(max(velocity, 0), 127)
ClampVelocity(v) == Min2(Max2(v, 0), MaxVelocity)

\* add_hit without the clamp: the velocity is stored as given
AddHitGridNoClamp(g, steps, step, drum, velocity) ==
    IF 0 <= step /\ step < steps
    THEN [g EXCEPT ![<<step, drum>>] = velocity]
    ELSE g

\* DrumPattern.add_hit on a grid of `steps` steps
AddHitGrid(g, steps, step, drum, velocity) ==
    IF 0 <= step /\ step < steps
    THEN [g EXCEPT ![<<step, drum>>] = ClampVelocity(velocity)]
    ELSE g

\* DrumPattern.remove_hit
RemoveHitGrid(g, steps, step, drum) ==
    IF 0 <= step /\ step < steps
    THEN [g EXCEPT ![<<step, drum>>] = 0]
    ELSE g

\* DrumPattern.get_hits: steps outer loop, drum types inner loop, velocity > 0
RECURSIVE HitsOfStep(_, _, _)
HitsOfStep(g, s, d) ==
    IF d >= NumDrums THEN <<>>
    ELSE (IF g[<<s, d>>] > 0
          THEN <<[step |-> s, drum_type |-> d, velocity |-> g[<<s, d>>]]>>
          ELSE <<>>)
         \o HitsOfStep(g, s, d + 1)

RECURSIVE HitsFrom(_, _, _)
HitsFrom(g, steps, s) ==
    IF s >= steps THEN <<>>
    ELSE HitsOfStep(g, s, 0) \o HitsFrom(g, steps, s + 1)

GetHits(g, steps) == HitsFrom(g, steps, 0)

(***************************************************************************)
(* Float arrays (the values of to_binary, to_normalized and the argument   *)
(* of from_array) hold x as the integer x * ArrOne, ArrOne = 127 * 100, so *)
(* that v / 127 is exact.                                                  *)
(***************************************************************************)
ArrOne == 127 * 100

\* to_binary testing grid != 0 instead of grid > 0
ToBinaryNonZero(g, steps) == [c \in Cells(steps) |-> IF g[c] # 0 THEN ArrOne ELSE 0]

\* DrumPattern.to_binary: (grid > 0).astype(float32)
ToBinary(g, steps) == [c \in Cells(steps) |-> IF g[c] > 0 THEN ArrOne ELSE 0]

\* DrumPattern.to_normalized: grid.astype(float32) / 127.0
ToNormalized(g, steps) == [c \in Cells(steps) |-> (g[c] * ArrOne) \div MaxVelocity]

\* DrumPattern.from_array: (array * 127).astype(np.int16), no clamp
FromArray(arr, steps) ==
    [c \in Cells(steps) |-> TruncDiv(arr[c] * MaxVelocity, ArrOne)]

(***************************************************************************)
(* Loops of add_hit calls.  A hit to add is <<step, drum, velocity>>.      *)
(***************************************************************************)
\* range(a, b, k) as a sequence
RECURSIVE RangeSeq(_, _, _)
RangeSeq(a, b, k) == IF a >= b THEN <<>> ELSE <<a>> \o RangeSeq(a + k, b, k)

RECURSIVE AddHits(_, _, _)
AddHits(g, steps, hs) ==
    IF hs = <<>> THEN g
    ELSE AddHits(AddHitGrid(g, steps, hs[1][1], hs[1][2], hs[1][3]), steps, Tail(hs))

(***************************************************************************)
(* EDMPatternLibrary.                                                      *)
(***************************************************************************)
\* four_on_floor(steps, accent_every)
FourOnFloor(steps, accent_every) ==
    LET r == RangeSeq(0, steps, 4)
    IN  AddHits(ZeroGrid(steps), steps,
                [j \in 1 .. Len(r) |->
                    <<r[j], KICK,
                      IF (r[j] \div 4) % accent_every = 0 THEN 127 ELSE 100>>])

\* snare_clap_pattern(steps): steps 4 and 12, whatever the step count
SnareClapPattern(steps) ==
    AddHits(ZeroGrid(steps), steps,
            <<<<4, SNARE, 110>>, <<4, CLAP, 90>>, <<12, SNARE, 110>>, <<12, CLAP, 90>>>>)

\* drop_pattern(steps) with the hi-hats at velocity 90
DropPatternSoftHats(steps) ==
    LET k == RangeSeq(0, steps, 4)
        h == RangeSeq(0, steps, 2)
    IN  AddHits(ZeroGrid(steps), steps,
                [j \in 1 .. Len(k) |-> <<k[j], KICK, 127>>]
                \o <<<<4, SNARE, 120>>, <<12, SNARE, 120>>>>
                \o [j \in 1 .. Len(h) |-> <<h[j], HIHAT_CLOSED, 90>>]
                \o <<<<0, CRASH, 120>>>>)

\* drop_pattern(steps)
DropPattern(steps) ==
    LET k == RangeSeq(0, steps, 4)
        h == RangeSeq(0, steps, 2)
    IN  AddHits(ZeroGrid(steps), steps,
                [j \in 1 .. Len(k) |-> <<k[j], KICK, 127>>]
                \o <<<<4, SNARE, 120>>, <<12, SNARE, 120>>>>
                \o [j \in 1 .. Len(h) |-> <<h[j], HIHAT_CLOSED, 100>>]
                \o <<<<0, CRASH, 120>>>>)

\* One loop of syncopated_hihat: for i in idx: if random() < p: add_hit(i, drum,
\* randint(lo, hi)); with lo = hi no velocity is drawn.  st = [grid, rng].
RECURSIVE HatLoop(_, _, _, _, _, _, _)
HatLoop(st, steps, idx, p, drum, lo, hi) ==
    IF idx = <<>> THEN st
    ELSE LET x1 == RngNext(st.rng)
             take == RandomOf(st.rng) < p
             x2 == IF take /\ lo < hi THEN RngNext(x1) ELSE x1
             v == IF lo < hi THEN RandIntOf(x1, lo, hi) ELSE lo
             g2 == IF take THEN AddHitGrid(st.grid, steps, idx[1], drum, v)
                           ELSE st.grid
         IN  HatLoop([grid |-> g2, rng |-> x2], steps, Tail(idx), p, drum, lo, hi)

\* syncopated_hihat(steps, density), density in hundredths
SyncopatedHihat(steps, density, x) ==
    LET a == HatLoop([grid |-> ZeroGrid(steps), rng |-> x], steps,
                     RangeSeq(0, steps, 2), density, HIHAT_CLOSED, 60, 100)
        b == HatLoop(a, steps, RangeSeq(1, steps, 4), (density * 6) \div 10,
                     HIHAT_CLOSED, 40, 70)
    IN  HatLoop(b, steps, RangeSeq(6, steps, 8), 40, HIHAT_OPEN, 80, 80)

\* One loop of breakbeat: for step in idx: if step < steps: add_hit(step, drum,
\* randint(lo, hi))
RECURSIVE BreakLoop(_, _, _, _, _, _)
BreakLoop(st, steps, idx, drum, lo, hi) ==
    IF idx = <<>> THEN st
    ELSE IF idx[1] < steps
         THEN BreakLoop([grid |-> AddHitGrid(st.grid, steps, idx[1], drum,
                                             RandIntOf(st.rng, lo, hi)),
                         rng |-> RngNext(st.rng)],
                        steps, Tail(idx), drum, lo, hi)
         ELSE BreakLoop(st, steps, Tail(idx), drum, lo, hi)

\* breakbeat(steps)
Breakbeat(steps, x) ==
    LET a == BreakLoop([grid |-> ZeroGrid(steps), rng |-> x], steps,
                       <<0, 6, 11>>, KICK, 100, 120)
        b == BreakLoop(a, steps, <<4, 10, 12>>, SNARE, 90, 110)
    IN  BreakLoop(b, steps, <<0, 2, 4, 6, 8, 10, 12, 14>>, HIHAT_CLOSED, 60, 100)

\* build_up_pattern(steps): progress = i / steps; int(a + progress * b) is
\* a + (i * b) div steps
RECURSIVE BuildUpLoop(_, _, _)
BuildUpLoop(st, steps, i) ==
    IF i >= steps THEN st
    ELSE LET g1 == IF i % 4 = 0
                   THEN AddHitGrid(st.grid, steps, i, KICK, 80 + ((i * 47) \div steps))
                   ELSE st.grid
             g2 == IF i >= steps \div 2 /\ i % 2 = 0
                   THEN AddHitGrid(g1, steps, i, SNARE, 60 + ((i * 67) \div steps))
                   ELSE g1
             g3 == IF RandomOf(st.rng) * steps < i * 100
                   THEN AddHitGrid(g2, steps, i, HIHAT_CLOSED, 40 + ((i * 60) \div steps))
                   ELSE g2
         IN  BuildUpLoop([grid |-> g3, rng |-> RngNext(st.rng)], steps, i + 1)

BuildUpPattern(steps, x) ==
    LET a == BuildUpLoop([grid |-> ZeroGrid(steps), rng |-> x], steps, 0)
    IN  [grid |-> AddHitGrid(a.grid, steps, steps - 1, CRASH, 127), rng |-> a.rng]

\* combine_patterns: one input is [steps, grid]; hits of every input in argument
\* order, the cell keeps max(current, hit.velocity)
RECURSIVE MaxOfSteps(_)
MaxOfSteps(ps) ==
    IF ps = <<>> THEN 0 ELSE Max2(ps[1].steps, MaxOfSteps(Tail(ps)))

RECURSIVE KeepMax(_, _, _)
KeepMax(g, max_steps, hits) ==
    IF hits = <<>> THEN g
    ELSE LET h == hits[1]
             c == <<h.step, h.drum_type>>
         IN  KeepMax(IF h.step < max_steps
                     THEN [g EXCEPT ![c] = Max2(g[c], h.velocity)]
                     ELSE g,
                     max_steps, Tail(hits))

RECURSIVE CombineInto(_, _, _)
CombineInto(g, max_steps, ps) ==
    IF ps = <<>> THEN g
    ELSE CombineInto(KeepMax(g, max_steps, GetHits(ps[1].grid, ps[1].steps)),
                     max_steps, Tail(ps))

\* DrumPattern() of the empty call
DefaultSteps == 16

CombineSteps(ps) == IF ps = <<>> THEN DefaultSteps ELSE MaxOfSteps(ps)

CombinePatterns(ps) ==
    CombineInto(ZeroGrid(CombineSteps(ps)), CombineSteps(ps), ps)

(***************************************************************************)
(* PatternVariation: the grids the operators compute.                      *)
(***************************************************************************)
\* add_fills: for step in range(steps - 4, steps): if random() < p:
\* add_hit(step, choice(toms), randint(80, 110)); p in hundredths
RECURSIVE FillLoop(_, _, _, _)
FillLoop(st, steps, idx, p) ==
    IF idx = <<>> THEN st
    ELSE LET x1 == RngNext(st.rng)
             x2 == RngNext(x1)
             take == RandomOf(st.rng) < p
             tom == <<TOM_HIGH, TOM_MID, TOM_LOW>>[1 + ((x1 * 2) \div (RngMod - 1))]
         IN  FillLoop(IF take
                      THEN [grid |-> AddHitGrid(st.grid, steps, idx[1], tom,
                                                RandIntOf(x2, 80, 110)),
                            rng |-> RngNext(x2)]
                      ELSE [grid |-> st.grid, rng |-> x1],
                      steps, Tail(idx), p)

AddFills(g, steps, p, x) ==
    FillLoop([grid |-> g, rng |-> x], steps, RangeSeq(steps - 4, steps, 1), p)

\* velocity_variation: variation = int(v * amount * (random() * 2 - 1)),
\* new = max(20, min(127, v + variation)); amount in hundredths
JitterVelocity(v, amount, r) ==
    Max2(20, Min2(127, v + TruncDiv(v * amount * (2 * r - 100), 100 * 100)))

RECURSIVE JitterLoop(_, _, _, _)
JitterLoop(st, steps, hits, amount) ==
    IF hits = <<>> THEN st
    ELSE JitterLoop([grid |-> AddHitGrid(st.grid, steps, hits[1].step,
                                         hits[1].drum_type,
                                         JitterVelocity(hits[1].velocity, amount,
                                                        RandomOf(st.rng))),
                     rng |-> RngNext(st.rng)],
                    steps, Tail(hits), amount)

VelocityVariation(g, steps, amount, x) ==
    JitterLoop([grid |-> ZeroGrid(steps), rng |-> x], steps, GetHits(g, steps), amount)

\* shift_pattern: np.roll(grid, shift, axis=0), a new array
ShiftPattern(g, steps, shift) ==
    [c \in Cells(steps) |-> g[<<(c[1] - shift) % steps, c[2]>>]]

\* np.flip along the drum axis (axis=1) instead of the step axis
ReversePatternDrumAxis(g, steps) ==
    [c \in Cells(steps) |-> g[<<c[1], NumDrums - 1 - c[2]>>]]

\* reverse_pattern: the values of np.flip(grid, axis=0)
ReversePattern(g, steps) ==
    [c \in Cells(steps) |-> g[<<steps - 1 - c[1], c[2]>>]]

(***************************************************************************)
(* Audio.  A sample is held in thousandths (1000 is 1.0); a buffer is a    *)
(* sequence of samples.  The model renders at SampleRate samples a second. *)
(***************************************************************************)
\* SynthConfig.sample_rate of the model's renders
SampleRate == 12
\* number of states of the np.random generator
NpMod == 3

\* the largest member of a finite set of numbers, 0 for the empty set
MaxOf(S) == IF S = {} THEN 0 ELSE CHOOSE p \in S : \A q \in S : q <= p

\* np.max(np.abs(buf)) of a non-empty buffer
Peak(buf) == MaxOf({Abs(buf[k]) : k \in 1 .. Len(buf)})

\* the function f on 1 .. n as a sequence
AsSeq(f) == SubSeq(f, 1, Len(f))

Zeros(n) == AsSeq([k \in 1 .. n |-> 0])

\* np.tanh on thousandths: linear interpolation between the values of tanh at
\* multiples of 0.25, 1.0 from 4.0 on; odd
TanhKnots ==
    <<0, 245, 462, 635, 762, 848, 905, 941, 964, 978, 987, 992, 995, 997, 998,
      999, 999>>

TanhPos(x) ==
    IF x >= 4000 THEN 1000
    ELSE LET i == x \div 250
             lo == TanhKnots[i + 1]
             hi == IF i + 2 <= Len(TanhKnots) THEN TanhKnots[i + 2] ELSE 1000
         IN  lo + (((hi - lo) * (x % 250)) \div 250)

Tanh(x) == IF x >= 0 THEN TanhPos(x) ELSE 0 - TanhPos(0 - x)

\* np.random.uniform(-1, 1) read from state x of the np.random generator
NoiseOf(x) == ((x * 2000) \div (NpMod - 1)) - 1000
NpNext(x) == (x + 1) % NpMod

\* the state after n draws, NpNext applied n times
NpAdvance(x, n) == (x + n) % NpMod

\* np.random.uniform(-1, 1, n): the samples and the generator state after them
DrawNoise(n, x) ==
    [buf |-> AsSeq([k \in 1 .. n |-> NoiseOf(NpAdvance(x, k - 1))]),
     np |-> NpAdvance(x, n)]

\* np.exp(-t / tau) over a voice of n samples, held as a linear decay from 1.0
DecayAt(k, n) == (1000 * (n - k + 1)) \div n

\* DrumSynthesizer._normalize(audio, headroom = 0.9)
Normalize(buf) ==
    IF Len(buf) > 0 /\ Peak(buf) > 0
    THEN LET max_val == Peak(buf)
         IN  AsSeq([k \in 1 .. Len(buf) |-> TruncDiv(buf[k] * 900, max_val)])
    ELSE buf

\* int(sample_rate * duration), duration in hundredths of a second
VoiceLen(duration) == (SampleRate * duration) \div 100

\* DrumSynthesizer.kick: swept sine under its envelope (held as the envelope)
\* plus 0.1 * noise under a faster envelope, tanh distortion when
\* distortion = energy * 0.5 > 0, then _normalize.  energy in hundredths.
KickVoice(energy, x) ==
    LET n == VoiceLen(50)
        d == DrawNoise(n, x)
        raw == [k \in 1 .. n |->
                   DecayAt(k, n) + TruncDiv((d.buf[k] \div 10) * DecayAt(k, n), 1000)]
        dist == energy * 5
        kick == IF dist > 0
                THEN [k \in 1 .. n |-> Tanh(TruncDiv(raw[k] * (1000 + 2 * dist), 1000))]
                ELSE raw
    IN  [buf |-> Normalize(kick), np |-> d.np]

\* DrumSynthesizer.snare / hihat_closed / hihat_open / crash: noise under a
\* decay, scaled by gain (thousandths), then _normalize.  The Butterworth
\* filters and the snare's two sine tones are deterministic and are left out.
NoiseVoice(duration, gain, x) ==
    LET n == VoiceLen(duration)
        d == DrawNoise(n, x)
    IN  [buf |-> Normalize([k \in 1 .. n |->
                     TruncDiv(TruncDiv(d.buf[k] * DecayAt(k, n), 1000) * gain, 1000)]),
         np |-> d.np]

\* DrumSynthesizer.clap: four noise bursts added from int(delay * sample_rate)
\* on, each min(500, num_samples - start) long
RECURSIVE ClapBursts(_, _, _)
ClapBursts(st, n, delays) ==
    IF delays = <<>> THEN st
    ELSE LET start == (delays[1] * SampleRate) \div 100
             len == Min2(500, n - start)
             d == DrawNoise(len, st.np)
         IN  IF start < n
             THEN ClapBursts([buf |-> [k \in 1 .. n |->
                                         IF k > start /\ k <= start + len
                                         THEN st.buf[k] + d.buf[k - start]
                                         ELSE st.buf[k]],
                              np |-> d.np],
                             n, Tail(delays))
             ELSE ClapBursts(st, n, Tail(delays))

ClapVoice(x) ==
    LET n == VoiceLen(20)
        b == ClapBursts([buf |-> Zeros(n), np |-> x], n, <<0, 1, 2, 3>>)
    IN  [buf |-> Normalize([k \in 1 .. n |-> TruncDiv(b.buf[k] * DecayAt(k, n), 1000)]),
         np |-> b.np]

\* drum_synth_map of synthesize_drums: the voice of a drum type, FALSE for the
\* types that are not rendered
HasVoice(drum) == drum \in {KICK, SNARE, CLAP, HIHAT_CLOSED, HIHAT_OPEN, CRASH}

\* the default_duration of drum_synth_map, in hundredths of a second
VoiceDuration(drum) ==
    CASE drum = KICK -> 50
      [] drum = SNARE -> 30
      [] drum = CLAP -> 20
      [] drum = HIHAT_CLOSED -> 10
      [] drum = HIHAT_OPEN -> 40
      [] OTHER -> 200

DrumVoice(drum, energy, x) ==
    CASE drum = KICK -> KickVoice(energy, x)
      [] drum = SNARE -> NoiseVoice(VoiceDuration(drum), 700, x)
      [] drum = CLAP -> ClapVoice(x)
      [] drum = HIHAT_CLOSED -> NoiseVoice(VoiceDuration(drum), 600, x)
      [] drum = HIHAT_OPEN -> NoiseVoice(VoiceDuration(drum), 500, x)
      [] OTHER -> NoiseVoice(VoiceDuration(drum), 400, x)

\* output[start : end] += voice[: end - start] * scale / den, where
\* end = min(start + len(voice), len(output)) and start counts from 0
AddAt(out, start, voice, scale, den) ==
    LET end == Min2(start + Len(voice), Len(out))
    IN  IF end <= start THEN out
        ELSE SubSeq(out, 1, start)
             \o [k \in 1 .. (end - start) |->
                    out[start + k] + TruncDiv(voice[k] * scale, den)]
             \o SubSeq(out, end + 1, Len(out))

\* the body of "for hit in hits" for one hit of bar number bar; st = [buf, np]
DrumHit(st, hit, bar, tempo, energy) ==
    IF ~HasVoice(hit.drum_type) THEN st
    ELSE LET v == DrumVoice(hit.drum_type, energy, st.np)
             hit_sample == ((bar * 16 + hit.step) * 15 * SampleRate) \div tempo
         IN  [buf |-> AddAt(st.buf, hit_sample, v.buf, hit.velocity, MaxVelocity),
              np |-> v.np]

\* "for bar in range(bars): for hit in hits": iterations lo .. hi of the two
\* loops, iteration i being hit ((i - 1) % n) + 1 of bar (i - 1) \div n.  The
\* range is halved and its first half evaluated before its second half, which
\* keeps the evaluation shallow.
RECURSIVE DrumHitsIn(_, _, _, _, _, _)
DrumHitsIn(st, hits, lo, hi, tempo, energy) ==
    IF lo > hi THEN st
    ELSE IF lo = hi
    THEN DrumHit(st, hits[((lo - 1) % Len(hits)) + 1], (lo - 1) \div Len(hits),
                 tempo, energy)
    ELSE LET mid == (lo + hi) \div 2
             half == DrumHitsIn(st, hits, lo, mid, tempo, energy)
         IN  IF half.np \in 0 .. (NpMod - 1)
             THEN DrumHitsIn(half, hits, mid + 1, hi, tempo, energy)
             ELSE half

\* EDMSynthesizer.synthesize_drums(pattern, bars)
SynthesizeDrums(g, bars, tempo, energy, x) ==
    LET hits == GetHits(g, 16)
    IN  DrumHitsIn([buf |-> Zeros((SampleRate * 240 * bars) \div tempo), np |-> x],
                   hits, 1, bars * Len(hits), tempo, energy)

(***************************************************************************)
(* ADSR.generate.  Times are held as their sample counts                   *)
(* (int(seconds * sample_rate)), levels in thousandths.                    *)
(***************************************************************************)
\* np.linspace(a, b, n): n evenly spaced values from a to b, a alone for n = 1
Linspace(a, b, n) ==
    [k \in 1 .. n |-> IF n = 1 THEN a ELSE a + TruncDiv((k - 1) * (b - a), n - 1)]

\* envelope[lo:hi] = vals: the slice is cut at the array's end; the values must
\* have the slice's length or be a single value, else numpy raises ValueError
AssignSlice(envelope, lo, hi, vals) ==
    LET n == Len(envelope)
        from == Min2(lo, n)
        to == Max2(from, Min2(hi, n))
    IN  IF Len(vals) # to - from /\ Len(vals) # 1
        THEN [err |-> TRUE, envelope |-> envelope]
        ELSE [err |-> FALSE,
              envelope |-> [k \in 1 .. n |->
                               IF from < k /\ k <= to
                               THEN (IF Len(vals) = 1 THEN vals[1] ELSE vals[k - from])
                               ELSE envelope[k]]]

\* the attack ramp rising to 1.2
AttackRampOvershoot(attack_samples) == Linspace(0, 1200, attack_samples)

\* np.linspace(0, 1, attack_samples)
AttackRamp(attack_samples) == Linspace(0, 1000, attack_samples)

\* ADSR.generate on attack_samples, decay_samples, the sustain level,
\* release_samples, num_samples and sustain_end; err tells that the call raised
AdsrGenerate(attack_samples, decay_samples, sustain, release_samples, num_samples, sustain_end) ==
    LET zeros == [err |-> FALSE, envelope |-> Zeros(num_samples)]
        att == IF attack_samples > 0
               THEN AssignSlice(zeros.envelope, 0, attack_samples,
                                AttackRamp(attack_samples))
               ELSE zeros
        decay_start == attack_samples
        decay_end == attack_samples + decay_samples
        dec == IF decay_samples > 0 /\ decay_end < num_samples
               THEN AssignSlice(att.envelope, decay_start, decay_end,
                                Linspace(1000, sustain, decay_samples))
               ELSE att
        sus == IF decay_end < sustain_end /\ sustain_end < num_samples
               THEN AssignSlice(dec.envelope, decay_end, sustain_end, <<sustain>>)
               ELSE dec
        release_start == sustain_end
        release_end == Min2(release_start + release_samples, num_samples)
        start_level == IF release_start > 0 THEN sus.envelope[release_start]
                       ELSE sustain
        rel == IF release_samples > 0 /\ release_start < num_samples
               THEN AssignSlice(sus.envelope, release_start, release_end,
                                Linspace(start_level, 0, release_end - release_start))
               ELSE sus
    IN  IF att.err THEN [err |-> TRUE, envelope |-> <<>>]
        ELSE IF dec.err \/ sus.err \/ rel.err THEN [err |-> TRUE, envelope |-> <<>>]
        ELSE [err |-> FALSE, envelope |-> AsSeq(rel.envelope)]

(***************************************************************************)
(* EDMSynthesizer.mix_tracks and the master compressor.  A track set is a  *)
(* function from track names to buffers.                                   *)
(***************************************************************************)
\* the terms x^i / i! of exp(x) from term i on, x = num / den, in thousandths
RECURSIVE ExpTerms(_, _, _, _)
ExpTerms(term, i, num, den) ==
    IF term = 0 THEN 0
    ELSE term + ExpTerms((term * num) \div (den * (i + 1)), i + 1, num, den)

\* np.exp(-num / den) in thousandths
ExpNeg(num, den) ==
    IF num >= 7 * den THEN 0
    ELSE (1000 * 1000) \div ExpTerms(1000, 0, num, den)

\* smoothed_envelope from sample i on, current being the follower's value
RECURSIVE SmoothFrom(_, _, _)
SmoothFrom(audio, i, current) ==
    IF i > Len(audio) THEN <<>>
    ELSE LET e == Abs(audio[i])
             \* attack = 0.005 and release = 0.1 seconds
             coeff == IF e > current THEN ExpNeg(200, SampleRate)
                      ELSE ExpNeg(10, SampleRate)
             next == TruncDiv(coeff * current + (1000 - coeff) * e, 1000)
         IN  <<next>> \o SmoothFrom(audio, i + 1, next)

\* EffectsProcessor.compressor(audio, threshold=0.6, ratio=4.0, attack=0.005,
\* release=0.1)
Compressor(audio) ==
    LET smoothed == SmoothFrom(audio, 1, 0)
        gain == [k \in 1 .. Len(audio) |->
                    IF smoothed[k] > 600
                    THEN TruncDiv((600 + TruncDiv(smoothed[k] - 600, 4)) * 1000,
                                  smoothed[k])
                    ELSE 1000]
    IN  AsSeq([k \in 1 .. Len(audio) |-> TruncDiv(audio[k] * gain[k], 1000)])

\* levels.get(track_name, 0.8) on the default levels, in hundredths
TrackLevel(track_name) ==
    CASE track_name = "drums" -> 100
      [] track_name = "bass" -> 80
      [] track_name = "lead" -> 70
      [] track_name = "kick" -> 120
      [] OTHER -> 80

\* np.pad(audio, (0, max_len - len(audio))) if len(audio) < max_len
PadTrack(audio, max_len) ==
    IF Len(audio) < max_len THEN audio \o Zeros(max_len - Len(audio)) ELSE audio

\* mixed after the loop over the tracks named in names
RECURSIVE SumTracks(_, _, _)
SumTracks(tracks, names, max_len) ==
    IF names = {} THEN Zeros(max_len)
    ELSE LET t == CHOOSE n \in names : TRUE
             rest == SumTracks(tracks, names \ {t}, max_len)
             audio == PadTrack(tracks[t], max_len)
         IN  AsSeq([k \in 1 .. max_len |->
                       rest[k] + TruncDiv(audio[k] * TrackLevel(t), 100)])

\* mixed *= self.config.master_volume (0.8)
MasterVolume(x) == TruncDiv(x * 8, 10)

\* np.tanh(mixed * 1.2) * 0.9
MasterLimiter(x) == TruncDiv(Tanh(TruncDiv(x * 12, 10)) * 9, 10)

\* mix_tracks with the soft limiter ahead of the master volume
MixTracksLimiterFirst(tracks) ==
    IF DOMAIN tracks = {}
    THEN [summed |-> <<>>, compressed |-> <<>>, scaled |-> <<>>, out |-> <<>>]
    ELSE LET max_len == MaxOf({Len(tracks[t]) : t \in DOMAIN tracks})
             summed == SumTracks(tracks, DOMAIN tracks, max_len)
             compressed == Compressor(summed)
             limited == AsSeq([k \in 1 .. max_len |-> MasterLimiter(compressed[k])])
         IN  [summed |-> summed, compressed |-> compressed, scaled |-> limited,
              out |-> AsSeq([k \in 1 .. max_len |-> MasterVolume(limited[k])])]

\* mix_tracks(tracks) with the default levels: the buffer after each stage
MixTracks(tracks) ==
    IF DOMAIN tracks = {}
    THEN [summed |-> <<>>, compressed |-> <<>>, scaled |-> <<>>, out |-> <<>>]
    ELSE LET max_len == MaxOf({Len(tracks[t]) : t \in DOMAIN tracks})
             summed == SumTracks(tracks, DOMAIN tracks, max_len)
             compressed == Compressor(summed)
             scaled == AsSeq([k \in 1 .. max_len |-> MasterVolume(compressed[k])])
         IN  [summed |-> summed, compressed |-> compressed, scaled |-> scaled,
              out |-> AsSeq([k \in 1 .. max_len |-> MasterLimiter(scaled[k])])]

(***************************************************************************)
(* Oscillator.generate.  Durations are held in hundredths of a second,     *)
(* phases in thousandths of a cycle, samples in thousandths.               *)
(***************************************************************************)
\* round(sample_rate * duration): the nearest sample count, ties to the even one
OscLenRounded(duration) ==
    LET x == SampleRate * duration
        q == x \div 100
        r == x % 100
    IN  IF r > 50 \/ (r = 50 /\ q % 2 = 1) THEN q + 1 ELSE q

\* int(self.sample_rate * duration)
OscLen(duration) == (SampleRate * duration) \div 100

\* np.sin at c thousandths of a cycle (Bhaskara's approximation on a half cycle)
SinOfCycle(c) ==
    LET half == c % 500
        p == half * (500 - half)
        v == (16 * 1000 * p) \div (1250000 - 4 * p)
    IN  IF c % 1000 < 500 THEN v ELSE 0 - v

\* the waveform's value at c thousandths of a cycle
WaveAt(waveform, c) ==
    LET cyc == c % 1000
    IN  CASE waveform = "sine" -> SinOfCycle(cyc)
          [] waveform = "square" -> (IF cyc < 500 THEN 1000 ELSE 0 - 1000)
          [] waveform = "saw" -> 2 * cyc - 1000
          [] waveform = "triangle" -> (IF cyc < 500 THEN 4 * cyc - 1000
                                                   ELSE 3000 - 4 * cyc)
          [] OTHER -> 0

\* Oscillator.generate(frequency, duration, waveform, phase): the samples and
\* the state of the np.random generator after the call;
\* t = np.linspace(0, duration, n, endpoint=False), so t[k] = k * duration / n
OscillatorGenerate(frequency, duration, waveform, phase, x) ==
    LET n == OscLen(duration)
    IN  IF waveform = "noise" THEN DrawNoise(n, x)
        ELSE [buf |-> AsSeq([k \in 1 .. n |->
                                WaveAt(waveform,
                                       ((frequency * (k - 1) * duration * 10) \div n)
                                           + phase)]),
              np |-> x]

(***************************************************************************)
(* The dataset loading logic.  A piano roll is held by the origin of its   *)
(* rows and columns: rows[i] is the number (from 1) of the input row that  *)
(* row i shows, cols[j] the number of the input frame that column j shows, *)
(* and 0 stands for a row or column of padding.                            *)
(***************************************************************************)
\* a piano roll of the given shape, as read from the file
InputRoll(n_rows, n_frames) ==
    [rows |-> [i \in 1 .. n_rows |-> i], cols |-> [j \in 1 .. n_frames |-> j]]

\* seq[lo:hi] of numpy, cut at the sequence's end
Slice(seq, lo, hi) ==
    LET from == Min2(lo, Len(seq))
        to == Max2(from, Min2(hi, Len(seq)))
    IN  SubSeq(seq, from + 1, to)

\* np.pad(seq, (0, n)) along one axis
PadAxis(seq, n) == seq \o [k \in 1 .. n |-> 0]

\* full_piano_roll[21:108, :]: the slice one row short
PitchSliceShort(rows) == Slice(rows, 21, 108)

\* full_piano_roll[21:109, :]
PitchSlice(rows) == Slice(rows, 21, 109)

\* the time handling shared by both loaders: a window of seq_len = 512 frames
\* starting at random.randint(0, n - 512) when there are at least 512 frames,
\* zero padding to 512 otherwise; x is the state of the random generator
TimeWindow(cols, x) ==
    IF Len(cols) >= 512
    THEN LET start == RandIntOf(x, 0, Len(cols) - 512)
         IN  [cols |-> Slice(cols, start, start + 512), rng |-> RngNext(x)]
    ELSE [cols |-> PadAxis(cols, 512 - Len(cols)), rng |-> x]

\* the final safety check of test_midi_loading along one axis
ForceLen(seq, n) ==
    IF Len(seq) < n THEN PadAxis(seq, n - Len(seq))
    ELSE IF Len(seq) > n THEN Slice(seq, 0, n)
    ELSE seq

\* test_midi_loading from get_piano_roll's result on
TestMidiLoading(roll, x) ==
    LET full == IF Len(roll.rows) < 109
                THEN PadAxis(roll.rows, 128 - Len(roll.rows))
                ELSE roll.rows
        t == TimeWindow(roll.cols, x)
    IN  [rows |-> ForceLen(PitchSlice(full), 88), cols |-> ForceLen(t.cols, 512),
         rng |-> t.rng]

\* fast_midi_to_pianoroll on a file whose end time is end_time hundredths of a
\* second: none tells that it returned None
FastMidiToPianoroll(end_time, x) ==
    IF end_time <= 0 THEN [none |-> TRUE, rows |-> <<>>, cols |-> <<>>, rng |-> x]
    ELSE LET n_frames == ((end_time * 4) \div 100) + 1
             roll == InputRoll(88, Max2(n_frames, 1))
             t == TimeWindow(roll.cols, x)
         IN  [none |-> FALSE, rows |-> roll.rows, cols |-> t.cols, rng |-> t.rng]

(***************************************************************************)
(* EffectsProcessor.sidechain_compress.  Samples and gains are in          *)
(* thousandths, the ratio in tenths, attack and release in thousandths of  *)
(* a second.                                                               *)
(***************************************************************************)
\* gain_reduction from sample i on, current being current_gain
RECURSIVE SidechainGainFrom(_, _, _, _, _, _, _)
SidechainGainFrom(trigger, i, current, threshold, ratio, attack_samples, release_samples) ==
    IF i > Len(trigger) THEN <<>>
    ELSE LET e == Abs(trigger[i])
             target == IF e > threshold
                       THEN Max2(100, 1000 - TruncDiv((e - threshold) * 10, ratio))
                       ELSE 1000
             alpha == IF target < current
                      THEN IF attack_samples > 0
                           THEN 1000 - ExpNeg(1, attack_samples) ELSE 1000
                      ELSE IF release_samples > 0
                           THEN 1000 - ExpNeg(1, release_samples) ELSE 1000
             next == TruncDiv(current * (1000 - alpha) + target * alpha, 1000)
         IN  <<next>> \o SidechainGainFrom(trigger, i + 1, next, threshold, ratio,
                                           attack_samples, release_samples)

\* sidechain_compress(audio, trigger, threshold, ratio, attack, release): the
\* gain envelope and the buffer returned
SidechainCompress(audio, trigger, threshold, ratio, attack, release) ==
    LET min_len == Min2(Len(audio), Len(trigger))
        a == SubSeq(audio, 1, min_len)
        t == SubSeq(trigger, 1, min_len)
        gain == SidechainGainFrom(t, 1, 1000, threshold, ratio,
                                  (attack * SampleRate) \div 1000,
                                  (release * SampleRate) \div 1000)
    IN  [gain |-> gain,
         out |-> AsSeq([k \in 1 .. min_len |-> TruncDiv(a[k] * gain[k], 1000)])]

\* apply_sidechain_to_track(audio, kick_audio, strength), strength in tenths:
\* ratio = 2.0 + strength * 8.0
ApplySidechainToTrack(audio, kick_audio, strength) ==
    SidechainCompress(audio, kick_audio, 200, 20 + strength * 8, 5, 150)

(***************************************************************************)
(* DrumMIDIConverter.pattern_to_midi with the default MIDIConfig (no       *)
(* swing, no humanization).  An event is [time, type, note, velocity], a   *)
(* message [type, note, velocity, time] with time the delta in ticks.  The *)
(* step counts used divide 4 * ticks_per_beat, so ticks_per_step is whole. *)
(***************************************************************************)
\* MIDIConfig.ticks_per_beat
TicksPerBeat == 480

\* DrumType.get_midi_note
GetMidiNote(drum_type) ==
    CASE drum_type = KICK -> 36
      [] drum_type = SNARE -> 38
      [] drum_type = CLAP -> 39
      [] drum_type = HIHAT_CLOSED -> 42
      [] drum_type = HIHAT_OPEN -> 46
      [] drum_type = CRASH -> 49
      [] drum_type = 6 -> 51
      [] drum_type = TOM_HIGH -> 50
      [] drum_type = TOM_MID -> 47
      [] drum_type = TOM_LOW -> 45
      [] drum_type = 10 -> 37
      [] OTHER -> 36

\* ticks_per_step = ticks_per_beat / (pattern.steps / beats_per_bar)
TicksPerStep(steps) == (TicksPerBeat * 4) \div steps

\* _calculate_tick_time(step, ticks_per_step) with swing_amount = 0 and
\* humanize_timing = 0
CalculateTickTime(step, ticks_per_step) == step * ticks_per_step

\* _apply_humanization_velocity(velocity) with humanize_velocity = 0
ApplyHumanizationVelocity(velocity) == Max2(1, Min2(127, velocity))

\* events of one bar, in the order they are appended: the hits are visited by
\* step, each adds its note-on and its note-off
RECURSIVE BarEvents(_, _, _)
BarEvents(hits, bar_offset, ticks_per_step) ==
    IF hits = <<>> THEN <<>>
    ELSE LET tick_time == CalculateTickTime(hits[1].step + bar_offset, ticks_per_step)
             note == GetMidiNote(hits[1].drum_type)
         IN  <<[time |-> tick_time, type |-> "note_on", note |-> note,
                velocity |-> ApplyHumanizationVelocity(hits[1].velocity)],
               [time |-> tick_time + (ticks_per_step \div 10), type |-> "note_off",
                note |-> note, velocity |-> 0]>>
             \o BarEvents(Tail(hits), bar_offset, ticks_per_step)

\* e inserted behind the events of sorted that are not later than it
RECURSIVE InsertEvent(_, _)
InsertEvent(sorted, e) ==
    IF sorted = <<>> THEN <<e>>
    ELSE IF sorted[Len(sorted)].time <= e.time THEN Append(sorted, e)
    ELSE Append(InsertEvent(SubSeq(sorted, 1, Len(sorted) - 1), e), sorted[Len(sorted)])

\* events.sort(key=lambda x: x[0]), a stable sort
RECURSIVE SortEvents(_)
SortEvents(events) ==
    IF events = <<>> THEN <<>>
    ELSE InsertEvent(SortEvents(SubSeq(events, 1, Len(events) - 1)), events[Len(events)])

\* the messages of the sorted events, delta = int(tick_time - current_tick)
RECURSIVE EventMessages(_, _)
EventMessages(events, current_tick) ==
    IF events = <<>> THEN <<>>
    ELSE <<[type |-> events[1].type, note |-> events[1].note,
            velocity |-> events[1].velocity, time |-> events[1].time - current_tick]>>
         \o EventMessages(Tail(events), events[1].time)

\* the messages of bars bar, bar + 1, ...: for bar in range(bars), with
\* current_tick = bar * pattern.steps * ticks_per_step at the start of each
RECURSIVE BarsFrom(_, _, _, _)
BarsFrom(hits, steps, bar, bars) ==
    IF bar >= bars THEN <<>>
    ELSE EventMessages(SortEvents(BarEvents(hits, bar * steps, TicksPerStep(steps))),
                       bar * steps * TicksPerStep(steps))
         \o BarsFrom(hits, steps, bar + 1, bars)

MetaMessage(type) == [type |-> type, note |-> 0, velocity |-> 0, time |-> 0]

\* pattern_to_midi(pattern, output_file, bars): the track written
PatternToMidi(g, steps, bars) ==
    <<MetaMessage("set_tempo"), MetaMessage("track_name")>>
    \o BarsFrom(GetHits(g, steps), steps, 0, bars)
    \o <<MetaMessage("end_of_track")>>

(***************************************************************************)
(* generate_edm_local.  Times are held in ticks, 200 to the beat, so that  *)
(* every note start and length of the arrangement is a whole number;       *)
(* t ticks at tempo BPM are t * 60 / (200 * tempo) seconds.  Feature       *)
(* tempos are held in tenths of a BPM, energies in hundredths.             *)
(***************************************************************************)
\* max(130, min(180, int(raw_tempo))) without the doubling below 100
ForceTempoNoDouble(raw10) == Max2(130, Min2(180, TruncDiv(raw10, 10)))

\* tempo = max(130, min(180, int(raw_tempo))), raw_tempo doubled below 100
ForceTempo(raw10) ==
    LET raw == IF raw10 < 1000 THEN raw10 * 2 ELSE raw10
    IN  Max2(130, Min2(180, TruncDiv(raw, 10)))

\* SynthConfig.energy = max(0.7, f["energy"])
ConfigEnergy(energy) == Max2(70, energy)

\* SynthConfig.valence = f["valence"]
ConfigValence(valence) == valence

\* SynthConfig.danceability = max(0.7, f["danceability"])
ConfigDanceability(danceability) == Max2(70, danceability)

\* hash(track_name) & 0xFFFFFFFF, a non-negative number that depends on the
\* name and on the salt Python gives str hashes in each process
HashName(name, salt) == (IF name = "edm" THEN 3 ELSE 8) + 5 * salt

\* int(seconds * sample_rate) of a time in ticks
SampleOfTick(t, tempo) == (t * 3 * SampleRate) \div (10 * tempo)

\* the scale with the harmonic minor in place of the natural minor
ScaleHarmonicMinor(mode) ==
    IF mode = 1 THEN <<0, 2, 4, 5, 7, 9, 11>> ELSE <<0, 2, 3, 5, 7, 8, 11>>

Scale(mode) == IF mode = 1 THEN <<0, 2, 4, 5, 7, 9, 11>> ELSE <<0, 2, 3, 5, 7, 8, 10>>
ChordRoots(mode) == IF mode = 1 THEN <<0, 4, 5, 3>> ELSE <<0, 5, 2, 6>>

\* root_midi = 48 + key
RootMidi(key) == 48 + key

\* cr = chord_roots[bar % len(chord_roots)]
ChordRootOfBar(bar, mode) == ChordRoots(mode)[(bar % 4) + 1]

\* note(degree, octave)
NoteOf(key, mode, degree, octave) ==
    RootMidi(key) + Scale(mode)[(degree % 7) + 1] + ((degree \div 7) + octave) * 12

\* add_hit(s, drum, random.randint(lo, hi)) for each s of idx
RECURSIVE RandIntHits(_, _, _, _, _)
RandIntHits(st, idx, drum, lo, hi) ==
    IF idx = <<>> THEN st
    ELSE RandIntHits([grid |-> AddHitGrid(st.grid, 16, idx[1], drum,
                                          RandIntOf(st.rng, lo, hi)),
                      rng |-> RngNext(st.rng)],
                     Tail(idx), drum, lo, hi)

\* if random.random() < 0.5: add_hit(s, HIHAT_OPEN, 80) for each s of idx
RECURSIVE CoinHits(_, _)
CoinHits(st, idx) ==
    IF idx = <<>> THEN st
    ELSE CoinHits([grid |-> IF RandomOf(st.rng) < 50
                            THEN AddHitGrid(st.grid, 16, idx[1], HIHAT_OPEN, 80)
                            ELSE st.grid,
                   rng |-> RngNext(st.rng)],
                  Tail(idx))

HitsOn(idx, drum, v) == [k \in 1 .. Len(idx) |-> <<idx[k], drum, v>>]

\* intro_p: the pattern and the generator state after it
IntroPattern(x) ==
    LET h == RandIntHits([grid |-> ZeroGrid(16), rng |-> x],
                         RangeSeq(0, 16, 2), HIHAT_CLOSED, 45, 65)
    IN  [grid |-> AddHits(h.grid, 16, HitsOn(<<0, 8>>, KICK, 65)), rng |-> h.rng]

\* bp of build bar bi with the hi-hat on every fourth step in every bar
BuildPatternFlatHats(bi) ==
    LET k == AddHits(ZeroGrid(16), 16, HitsOn(RangeSeq(0, 16, 4), KICK, 85 + bi * 10))
        h == AddHits(k, 16, HitsOn(RangeSeq(0, 16, 4), HIHAT_CLOSED, 55 + bi * 12))
        s == IF bi >= 2
             THEN AddHits(h, 16, HitsOn(RangeSeq(0, 16, Max2(1, 4 - bi)),
                                        SNARE, 50 + bi * 18))
             ELSE h
    IN  IF bi = 3 THEN AddHitGrid(s, 16, 15, CRASH, 120) ELSE s

\* bp of build bar bi
BuildPattern(bi) ==
    LET k == AddHits(ZeroGrid(16), 16, HitsOn(RangeSeq(0, 16, 4), KICK, 85 + bi * 10))
        h == AddHits(k, 16, HitsOn(RangeSeq(0, 16, Max2(1, 4 - bi)),
                                   HIHAT_CLOSED, 55 + bi * 12))
        s == IF bi >= 2
             THEN AddHits(h, 16, HitsOn(RangeSeq(0, 16, Max2(1, 4 - bi)),
                                        SNARE, 50 + bi * 18))
             ELSE h
    IN  IF bi = 3 THEN AddHitGrid(s, 16, 15, CRASH, 120) ELSE s

\* drop_p after velocity_variation(drop_p, 0.08)
DropHits(x) ==
    LET k == AddHits(ZeroGrid(16), 16, HitsOn(RangeSeq(0, 16, 4), KICK, 127))
        s == AddHits(k, 16, <<<<4, SNARE, 115>>, <<4, CLAP, 95>>,
                              <<12, SNARE, 115>>, <<12, CLAP, 95>>>>)
        h == RandIntHits([grid |-> s, rng |-> x], RangeSeq(0, 16, 2),
                         HIHAT_CLOSED, 75, 100)
        o == CoinHits(h, <<6, 14>>)
    IN  [grid |-> AddHitGrid(o.grid, 16, 0, CRASH, 115), rng |-> o.rng]

\* drop_p after PatternVariation.velocity_variation(drop_p, 0.08)
RenderDropPattern(x) ==
    LET d == DropHits(x)
    IN  VelocityVariation(d.grid, 16, 8, d.rng)

\* drum_sections with the drop rendered for 4 bars only
DrumSectionsShortDrop(intro, drop) ==
    <<[grid |-> intro, bars |-> 4],
      [grid |-> BuildPattern(0), bars |-> 1], [grid |-> BuildPattern(1), bars |-> 1],
      [grid |-> BuildPattern(2), bars |-> 1], [grid |-> BuildPattern(3), bars |-> 1],
      [grid |-> drop, bars |-> 4]>>

\* drum_sections: the pattern and the bars argument of each synthesize_drums
\* call, in the order of the calls
DrumSections(intro, drop) ==
    <<[grid |-> intro, bars |-> 4],
      [grid |-> BuildPattern(0), bars |-> 1], [grid |-> BuildPattern(1), bars |-> 1],
      [grid |-> BuildPattern(2), bars |-> 1], [grid |-> BuildPattern(3), bars |-> 1],
      [grid |-> drop, bars |-> 8]>>

\* np.concatenate(drum_sections) of the section list sec
ConcatSections(sec, tempo, energy, x) ==
    LET s0 == SynthesizeDrums(sec[1].grid, sec[1].bars, tempo, energy, x)
        s1 == SynthesizeDrums(sec[2].grid, sec[2].bars, tempo, energy, s0.np)
        s2 == SynthesizeDrums(sec[3].grid, sec[3].bars, tempo, energy, s1.np)
        s3 == SynthesizeDrums(sec[4].grid, sec[4].bars, tempo, energy, s2.np)
        s4 == SynthesizeDrums(sec[5].grid, sec[5].bars, tempo, energy, s3.np)
        s5 == SynthesizeDrums(sec[6].grid, sec[6].bars, tempo, energy, s4.np)
    IN  [buf |-> s0.buf \o s1.buf \o s2.buf \o s3.buf \o s4.buf \o s5.buf,
         np |-> s5.np]

\* drum_audio: the sections rendered one after the other and concatenated; the
\* section list is built once
DrumAudio(intro, drop, tempo, energy, x) ==
    CHOOSE audio \in {ConcatSections(sec, tempo, energy, x) :
                         sec \in {DrumSections(intro, drop)}} : TRUE

\* bass_notes of one bar: <<note, start, duration, velocity>>, velocity in
\* hundredths
\* bass_notes of one bar with the build notes held for bar_dur * 1.1
BassNotesOfBarOverrun(bar, key, mode) ==
    LET n == NoteOf(key, mode, ChordRootOfBar(bar, mode), 0 - 1)
        t0 == bar * 800
    IN  IF bar < 4 THEN <<>>
        ELSE IF bar < 8 THEN <<<<n, t0, 880, 40 + 12 * (bar - 4)>>>>
        ELSE [i \in 1 .. 8 |->
                 <<n, t0 + (i - 1) * 100, 70, IF (i - 1) % 2 = 0 THEN 90 ELSE 50>>]

BassNotesOfBar(bar, key, mode) ==
    LET n == NoteOf(key, mode, ChordRootOfBar(bar, mode), 0 - 1)
        t0 == bar * 800
    IN  IF bar < 4 THEN <<>>
        ELSE IF bar < 8 THEN <<<<n, t0, 720, 40 + 12 * (bar - 4)>>>>
        ELSE [i \in 1 .. 8 |->
                 <<n, t0 + (i - 1) * 100, 70, IF (i - 1) % 2 = 0 THEN 90 ELSE 50>>]

Melodies ==
    <<<<0, 2, 4, 7, 4, 2, 4, 0>>, <<4, 2, 0, 2, 4, 7, 4, 2>>,
      <<0, 1, 2, 4, 5, 4, 2, 0>>, <<7, 4, 2, 0, 2, 4, 7, 9>>>>

\* lead_notes of one bar with the drop's melody at velocity 0.6
LeadNotesOfBarQuietDrop(bar, key, mode) ==
    LET cr == ChordRootOfBar(bar, mode)
        t0 == bar * 800
        pat == Melodies[(bar % 4) + 1]
    IN  IF bar < 4
        THEN <<<<NoteOf(key, mode, cr, 1), t0, 360, 30>>,
               <<NoteOf(key, mode, cr + 4, 1), t0 + 400, 360, 30>>>>
        ELSE IF bar < 8
        THEN [i \in 1 .. 8 |-> <<NoteOf(key, mode, cr + pat[i], 1),
                                 t0 + (i - 1) * 100, 85, 35 + 10 * (bar - 4)>>]
        ELSE [i \in 1 .. 8 |-> <<NoteOf(key, mode, cr + pat[i], 1),
                                 t0 + (i - 1) * 100, 80, 60>>]

\* lead_notes of one bar
LeadNotesOfBar(bar, key, mode) ==
    LET cr == ChordRootOfBar(bar, mode)
        t0 == bar * 800
        pat == Melodies[(bar % 4) + 1]
    IN  IF bar < 4
        THEN <<<<NoteOf(key, mode, cr, 1), t0, 360, 30>>,
               <<NoteOf(key, mode, cr + 4, 1), t0 + 400, 360, 30>>>>
        ELSE IF bar < 8
        THEN [i \in 1 .. 8 |-> <<NoteOf(key, mode, cr + pat[i], 1),
                                 t0 + (i - 1) * 100, 85, 35 + 10 * (bar - 4)>>]
        ELSE [i \in 1 .. 8 |-> <<NoteOf(key, mode, cr + pat[i], 1),
                                 t0 + (i - 1) * 100, 80, 70>>]

RECURSIVE NotesFrom(_, _, _, _)
NotesFrom(bar, key, mode, lead) ==
    IF bar >= 16 THEN <<>>
    ELSE (IF lead THEN LeadNotesOfBar(bar, key, mode)
                  ELSE BassNotesOfBar(bar, key, mode))
         \o NotesFrom(bar + 1, key, mode, lead)

\* signal.sawtooth at sample k of a note, in thousandths
SawAt(note, k) == ((note * k * 125) % 2000) - 1000

\* BassSynthesizer.saw_bass / LeadSynthesizer.supersaw: a saw of
\* int(sample_rate * duration) samples scaled by the velocity, the bass through
\* tanh(x * (1 + 3 * distortion)) and * 0.7, the lead * 0.6.  Envelope and
\* filters are deterministic gains and are left out.
NoteVoice(n, tempo, energy, lead) ==
    LET len == SampleOfTick(n[3], tempo)
        raw == [k \in 1 .. len |-> TruncDiv(SawAt(n[1], k) * n[4], 100)]
    IN  IF lead THEN AsSeq([k \in 1 .. len |-> TruncDiv(raw[k] * 6, 10)])
        ELSE AsSeq([k \in 1 .. len |->
                 TruncDiv(Tanh(TruncDiv(raw[k] * (1000 + 15 * energy), 1000)) * 7, 10)])

\* max(start + duration for the notes)
MaxEndTick(notes) == MaxOf({notes[i][2] + notes[i][3] : i \in 1 .. Len(notes)})

\* "for note, start_time, duration, velocity in midi_notes": notes lo .. hi,
\* the first half of the range evaluated before the second
RECURSIVE AddNotes(_, _, _, _, _, _, _)
AddNotes(out, notes, lo, hi, tempo, energy, lead) ==
    IF lo > hi THEN out
    ELSE IF lo = hi
    THEN AddAt(out, SampleOfTick(notes[lo][2], tempo),
               NoteVoice(notes[lo], tempo, energy, lead), 1, 1)
    ELSE LET mid == (lo + hi) \div 2
             half == AddNotes(out, notes, lo, mid, tempo, energy, lead)
         IN  IF Len(half) = Len(out)
             THEN AddNotes(half, notes, mid + 1, hi, tempo, energy, lead)
             ELSE half

\* EDMSynthesizer.synthesize_midi_notes(midi_notes, synth_type)
SynthesizeMidiNotes(notes, tempo, energy, lead) ==
    IF notes = <<>> THEN <<>>
    ELSE AddNotes(Zeros(SampleOfTick(MaxEndTick(notes), tempo)),
                  notes, 1, Len(notes), tempo, energy, lead)

\* synthesize_midi_notes(...) if notes else np.ones(1)
VoiceAudioOnes(has_notes, synthesized) == IF has_notes THEN synthesized ELSE <<1000>>

\* bass_audio / lead_audio: synthesize_midi_notes(...) if notes else np.zeros(1)
VoiceAudio(has_notes, synthesized) == IF has_notes THEN synthesized ELSE Zeros(1)

\* pad(arr): zero-padded or cut to max_len
Pad(arr, max_len) ==
    AsSeq([k \in 1 .. max_len |-> IF k <= Len(arr) THEN arr[k] ELSE 0])

\* mixed = pad(drums) * 1.0 + pad(bass) * 0.75 + pad(lead) * 0.55
WeightedSum(drums, bass, lead) ==
    LET max_len == Max2(Len(drums), Max2(Len(bass), Len(lead)))
        d == Pad(drums, max_len)
        b == Pad(bass, max_len)
        l == Pad(lead, max_len)
    IN  AsSeq([k \in 1 .. max_len |->
                  d[k] + TruncDiv(b[k] * 75, 100) + TruncDiv(l[k] * 55, 100)])

\* x * 1.5 * 0.92: the limiter without its tanh
SoftLimitLinear(x) == TruncDiv(TruncDiv(x * 3, 2) * 92, 100)

\* np.tanh(x * 1.5) * 0.92
SoftLimit(x) == TruncDiv(Tanh(TruncDiv(x * 3, 2)) * 92, 100)

\* the mix stage: pk, whether the division by pk ran, and the final samples
MixDown(drums, bass, lead) ==
    LET sum == WeightedSum(drums, bass, lead)
        pk == Peak(sum)
        norm == IF pk > 0
                THEN AsSeq([k \in 1 .. Len(sum) |-> TruncDiv(sum[k] * 1000, pk)])
                ELSE sum
    IN  [pk |-> pk, divided |-> pk > 0,
         out |-> AsSeq([k \in 1 .. Len(norm) |-> SoftLimit(norm[k])])]

\* audio_int = (mixed * 32767).astype(np.int16)
ToInt16(buf) == AsSeq([k \in 1 .. Len(buf) |-> TruncDiv(buf[k] * 32767, 1000)])

(***************************************************************************)
(* State.                                                                  *)
(*   pats   the DrumPattern objects created so far; an object holds its    *)
(*          step count and a reference to the array that is its grid:      *)
(*          buf is the array's base buffer, flip tells that the array is   *)
(*          the np.flip view of that buffer.  by/src record the operation  *)
(*          that built the object and its input (0: none).                 *)
(*   bufs   the array buffers                                              *)
(*   rng    the hidden state of the random module                          *)
(*   last   the last operation, its arguments and its return value         *)
(*   proj   the array returned by the last to_binary / to_normalized       *)
(*   ops    number of operations performed                                 *)
(*   render the runs of generate_edm_local, or the arrangement or the      *)
(*          worker threads of the specification at hand                    *)
(*   mix    the signal stage of the specification at hand: the mix stage   *)
(*          of generate_edm_local on given voice buffers, a call of        *)
(*          ADSR.generate, or a call of mix_tracks                         *)
(***************************************************************************)
VARIABLES pats, bufs, rng, last, proj, ops, render, mix

vars == <<pats, bufs, rng, last, proj, ops, render, mix>>

Pat(i) == pats[i]

\* the grid seen through pattern i's array reference
GridOf(i) ==
    IF pats[i].flip THEN ReversePattern(bufs[pats[i].buf], pats[i].steps)
                    ELSE bufs[pats[i].buf]

\* the buffers after pattern i's array is written so that it reads g
WriteGrid(i, g) ==
    [bufs EXCEPT ![pats[i].buf] =
        IF pats[i].flip THEN ReversePattern(g, pats[i].steps) ELSE g]

\* every pattern's grid, as read now
AllGrids == [i \in 1 .. Len(pats) |-> GridOf(i)]

NoLast ==
    [op |-> "none", a |-> 0, args |-> <<>>, res |-> 0,
     step |-> 0, drum |-> 0, vel |-> 0, out |-> <<>>, pres |-> <<>>,
     prev |-> <<>>]

\* the record of an operation: its name and the grids it found
Op(name) == [NoLast EXCEPT !.op = name, !.pres = AllGrids]

\* fresh: no add_hit / remove_hit ran since the projection was taken
NoProj == [kind |-> "none", of |-> 0, steps |-> 0, arr |-> <<>>, fresh |-> FALSE]

\* a new object on a new array
NewObject(steps, g, by, src) ==
    /\ pats' = Append(pats, [steps |-> steps, buf |-> Len(bufs) + 1,
                             flip |-> FALSE, by |-> by, src |-> src])
    /\ bufs' = Append(bufs, g)

\* inputs of the model
StepChoices == 1 .. MaxSteps
StepArgs == {0 - 1, 0, MaxSteps}
DrumArgs == {KICK, SNARE}
VelocityArgs == {0 - 1, 110, 200}
\* float cells handed to from_array: 1.0, 2.0, -1.0 and 0.5
ArrayKickValues == {ArrOne, 2 * ArrOne, 0 - ArrOne}
ArraySnareValue == ArrOne \div 2
\* the array with a at (0, KICK) and b at (steps - 1, SNARE), zero elsewhere
SampleArray(steps, a, b) ==
    [c \in Cells(steps) |->
        IF c = <<0, KICK>> THEN a
        ELSE IF c = <<steps - 1, SNARE>> THEN b ELSE 0]

PatIds == 1 .. Len(pats)

\* The pattern a behaviour starts from: DrumPattern(steps) after
\* add_hit(0, KICK, 80) and add_hit(steps - 1, SNARE, 110).
InitGrid(steps) ==
    AddHits(ZeroGrid(steps), steps, <<<<0, KICK, 80>>, <<steps - 1, SNARE, 110>>>>)

PatInit ==
    /\ \E steps \in StepChoices :
          /\ pats = <<[steps |-> steps, buf |-> 1, flip |-> FALSE,
                       by |-> "new", src |-> 0]>>
          /\ bufs = <<InitGrid(steps)>>
    /\ last = NoLast
    /\ proj = NoProj
    /\ ops = 0

Idle == [phase |-> "idle"]

Init ==
    /\ PatInit
    /\ rng \in 0 .. (RngMod - 1)
    /\ render = Idle
    /\ mix = Idle

\* one operation of the pattern model
Step ==
    /\ ops < MaxOps
    /\ ops' = ops + 1
    /\ UNCHANGED <<render, mix>>

\* DrumPattern(steps)
NewPattern ==
    \E steps \in StepChoices :
        /\ Step
        /\ NewObject(steps, ZeroGrid(steps), "new", 0)
        /\ last' = [Op("new") EXCEPT !.res = Len(pats) + 1]
        /\ UNCHANGED <<rng, proj>>

\* DrumPattern.from_array(array) on an array of the model's inputs
FromArrayInput ==
    \E steps \in StepChoices, a \in ArrayKickValues :
        /\ Step
        /\ NewObject(steps,
                     FromArray(SampleArray(steps, a, ArraySnareValue), steps),
                     "from_array", 0)
        /\ last' = [Op("from_array") EXCEPT !.res = Len(pats) + 1]
        /\ UNCHANGED <<rng, proj>>

\* DrumPattern.from_array(array) on the array a projection returned
FromArrayProj ==
    /\ proj.kind # "none"
    /\ Step
    /\ NewObject(proj.steps, FromArray(proj.arr, proj.steps), "from_array", 0)
    /\ last' = [Op("from_array_proj") EXCEPT !.a = proj.of, !.res = Len(pats) + 1]
    /\ UNCHANGED <<rng, proj>>

\* pattern.add_hit(step, drum_type, velocity)
AddHit ==
    \E i \in PatIds, step \in StepArgs, drum \in DrumArgs, velocity \in VelocityArgs :
        /\ Step
        /\ bufs' = WriteGrid(i, AddHitGrid(GridOf(i), pats[i].steps, step, drum, velocity))
        /\ last' = [Op("add_hit") EXCEPT !.a = i, !.step = step,
                                         !.drum = drum, !.vel = velocity]
        /\ proj' = [proj EXCEPT !.fresh = FALSE]
        /\ UNCHANGED <<pats, rng>>

\* pattern.remove_hit(step, drum_type)
RemoveHit ==
    \E i \in PatIds, step \in StepArgs, drum \in DrumArgs :
        /\ Step
        /\ bufs' = WriteGrid(i, RemoveHitGrid(GridOf(i), pats[i].steps, step, drum))
        /\ last' = [Op("remove_hit") EXCEPT !.a = i, !.step = step, !.drum = drum]
        /\ proj' = [proj EXCEPT !.fresh = FALSE]
        /\ UNCHANGED <<pats, rng>>

\* pattern.get_hits()
GetHitsCall ==
    \E i \in PatIds :
        /\ Step
        /\ last' = [Op("get_hits") EXCEPT !.a = i,
                                          !.out = GetHits(GridOf(i), pats[i].steps)]
        /\ UNCHANGED <<pats, bufs, rng, proj>>

\* pattern.to_binary()
ToBinaryCall ==
    \E i \in PatIds :
        /\ Step
        /\ proj' = [kind |-> "binary", of |-> i, steps |-> pats[i].steps,
                    arr |-> ToBinary(GridOf(i), pats[i].steps), fresh |-> TRUE]
        /\ last' = [Op("to_binary") EXCEPT !.a = i, !.prev = proj]
        /\ UNCHANGED <<pats, bufs, rng>>

\* pattern.to_normalized()
ToNormalizedCall ==
    \E i \in PatIds :
        /\ Step
        /\ proj' = [kind |-> "normalized", of |-> i, steps |-> pats[i].steps,
                    arr |-> ToNormalized(GridOf(i), pats[i].steps), fresh |-> TRUE]
        /\ last' = [Op("to_normalized") EXCEPT !.a = i, !.prev = proj]
        /\ UNCHANGED <<pats, bufs, rng>>

\* EDMPatternLibrary.four_on_floor / snare_clap_pattern / drop_pattern
LibraryFixed ==
    \E which \in {"four_on_floor", "snare_clap_pattern", "drop_pattern"} :
        /\ Step
        /\ NewObject(MaxSteps,
                     CASE which = "four_on_floor" -> FourOnFloor(MaxSteps, 4)
                       [] which = "snare_clap_pattern" -> SnareClapPattern(MaxSteps)
                       [] OTHER -> DropPattern(MaxSteps),
                     which, 0)
        /\ last' = [Op(which) EXCEPT !.res = Len(pats) + 1]
        /\ UNCHANGED <<rng, proj>>

\* EDMPatternLibrary.syncopated_hihat / breakbeat / build_up_pattern: they draw
\* from the random module
LibraryRandom ==
    \E which \in {"syncopated_hihat", "breakbeat", "build_up_pattern"} :
        LET r == CASE which = "syncopated_hihat" -> SyncopatedHihat(MaxSteps, 70, rng)
                   [] which = "breakbeat" -> Breakbeat(MaxSteps, rng)
                   [] OTHER -> BuildUpPattern(MaxSteps, rng)
        IN  /\ Step
            /\ NewObject(MaxSteps, r.grid, which, 0)
            /\ rng' = r.rng
            /\ last' = [Op(which) EXCEPT !.res = Len(pats) + 1]
            /\ UNCHANGED proj

\* the argument lists of combine_patterns: none, one or two of the patterns
CombineArgs ==
    {<<>>} \cup {<<i>> : i \in PatIds} \cup {<<i, j>> : i \in PatIds, j \in PatIds}

\* EDMPatternLibrary.combine_patterns(*patterns)
Combine ==
    \E args \in CombineArgs :
        LET ps == [k \in 1 .. Len(args) |->
                      [steps |-> pats[args[k]].steps, grid |-> GridOf(args[k])]]
        IN  /\ Step
            /\ NewObject(CombineSteps(ps), CombinePatterns(ps), "combine_patterns", 0)
            /\ last' = [Op("combine_patterns") EXCEPT !.args = args,
                                                      !.res = Len(pats) + 1]
            /\ UNCHANGED <<rng, proj>>

\* PatternVariation.add_fills(pattern, fill_probability): varied.grid is a copy
AddFillsCall ==
    \E i \in PatIds :
        LET r == AddFills(GridOf(i), pats[i].steps, 50, rng)
        IN  /\ Step
            /\ NewObject(pats[i].steps, r.grid, "add_fills", i)
            /\ rng' = r.rng
            /\ last' = [Op("add_fills") EXCEPT !.a = i, !.res = Len(pats) + 1]
            /\ UNCHANGED proj

\* PatternVariation.velocity_variation(pattern, variation_amount)
VelocityVariationCall ==
    \E i \in PatIds :
        LET r == VelocityVariation(GridOf(i), pats[i].steps, 20, rng)
        IN  /\ Step
            /\ NewObject(pats[i].steps, r.grid, "velocity_variation", i)
            /\ rng' = r.rng
            /\ last' = [Op("velocity_variation") EXCEPT !.a = i, !.vel = 20,
                                                        !.res = Len(pats) + 1]
            /\ UNCHANGED proj

\* PatternVariation.shift_pattern(pattern, shift): np.roll returns a new array
ShiftPatternCall ==
    \E i \in PatIds :
        /\ Step
        /\ NewObject(pats[i].steps, ShiftPattern(GridOf(i), pats[i].steps, 1),
                     "shift_pattern", i)
        /\ last' = [Op("shift_pattern") EXCEPT !.a = i, !.step = 1,
                                               !.res = Len(pats) + 1]
        /\ UNCHANGED <<rng, proj>>

\* PatternVariation.reverse_pattern(pattern): np.flip returns a view, the new
\* object's grid is the input's buffer seen in reverse step order
ReversePatternCall ==
    \E i \in PatIds :
        /\ Step
        /\ pats' = Append(pats, [steps |-> pats[i].steps, buf |-> pats[i].buf,
                                 flip |-> ~pats[i].flip,
                                 by |-> "reverse_pattern", src |-> i])
        /\ last' = [Op("reverse_pattern") EXCEPT !.a = i, !.res = Len(pats) + 1]
        /\ UNCHANGED <<bufs, rng, proj>>

Next ==
    \/ NewPattern
    \/ FromArrayInput
    \/ FromArrayProj
    \/ AddHit
    \/ RemoveHit
    \/ GetHitsCall
    \/ ToBinaryCall
    \/ ToNormalizedCall
    \/ LibraryFixed
    \/ LibraryRandom
    \/ Combine
    \/ AddFillsCall
    \/ VelocityVariationCall
    \/ ShiftPatternCall
    \/ ReversePatternCall

Spec == Init /\ [][Next]_vars

(***************************************************************************)
(* The render service: one process serving generate_edm_local.  render     *)
(* holds the process's str-hash salt, the state of the np.random generator *)
(* (never seeded by the code) and the two runs that are compared.          *)
(***************************************************************************)
Runs == {"first", "second"}
NoRun == [done |-> FALSE]

\* f["tempo"] in tenths of a BPM: 60, 90, 128, 150.5 and 200
TempoInputs == {600, 900, 1280, 1505, 2000}
\* features.get("track_name", "edm")
TrackNames == {"edm", "song"}
\* descriptors inside [0, 1], in hundredths
InRangeInputs ==
    [tempo : TempoInputs, energy : {80}, valence : {60}, danceability : {75},
     key : {0}, mode : {1}, track_name : TrackNames]
\* descriptors outside [0, 1]: energy 1.5 and -0.2, valence -0.5 and 1.3,
\* danceability 1.2 and -0.1
OutOfRangeInputs ==
    {[tempo |-> 1280, energy |-> 150, valence |-> 0 - 50, danceability |-> 120,
      key |-> 0, mode |-> 1, track_name |-> "song"],
     [tempo |-> 1280, energy |-> 0 - 20, valence |-> 130, danceability |-> 0 - 10,
      key |-> 0, mode |-> 1, track_name |-> "song"]}
FeatureInputs == InRangeInputs \cup OutOfRangeInputs

InitRender ==
    /\ pats = <<>>
    /\ bufs = <<>>
    /\ last = NoLast
    /\ proj = NoProj
    /\ ops = 0
    /\ rng = 0
    /\ mix = Idle
    /\ \E x \in 0 .. (NpMod - 1), salt \in {0, 1} :
          render = [phase |-> "serving", np |-> x, salt |-> salt,
                    runs |-> [r \in Runs |-> NoRun]]

\* generate_edm_local(features)
GenerateEdmLocal ==
    \E r \in Runs, f \in FeatureInputs :
        /\ render.phase = "serving"
        /\ ~render.runs[r].done
        /\ r = "second" => render.runs["first"].done
        /\ LET tempo == ForceTempo(f.tempo)
               energy == ConfigEnergy(f.energy)
               seed == HashName(f.track_name, render.salt)
               intro == IntroPattern(RngSeed(seed))
               drop == RenderDropPattern(intro.rng)
               drums == DrumAudio(intro.grid, drop.grid, tempo, energy, render.np)
               bass_notes == NotesFrom(0, f.key, f.mode, FALSE)
               lead_notes == NotesFrom(0, f.key, f.mode, TRUE)
               bass == VoiceAudio(bass_notes # <<>>,
                                  SynthesizeMidiNotes(bass_notes, tempo, energy, FALSE))
               lead == VoiceAudio(lead_notes # <<>>,
                                  SynthesizeMidiNotes(lead_notes, tempo, energy, TRUE))
               m == MixDown(drums.buf, bass, lead)
           IN  /\ rng' = drop.rng
               /\ render' = [render EXCEPT
                                !.runs[r] = [done |-> TRUE, features |-> f,
                                             tempo |-> tempo, energy |-> energy,
                                             valence |-> ConfigValence(f.valence),
                                             danceability |->
                                                 ConfigDanceability(f.danceability),
                                             seed |-> seed, intro |-> intro.grid,
                                             drop |-> drop.grid, pk |-> m.pk,
                                             mixed |-> m.out,
                                             out |-> ToInt16(m.out)],
                                !.np = drums.np]
        /\ UNCHANGED <<pats, bufs, last, proj, ops, mix>>

NextRender == GenerateEdmLocal

SpecRender == InitRender /\ [][NextRender]_vars

(***************************************************************************)
(* The mix stage of generate_edm_local on given voice buffers.             *)
(***************************************************************************)
\* longest voice buffer handed to the mix stage
MaxBuf == 2
\* samples of the voice buffers: -3.0, 0.0 and 0.7
SampleInputs == {0 - 3000, 0, 700}
BufsUpTo(lo) == UNION {[1 .. n -> SampleInputs] : n \in lo .. MaxBuf}

\* a voice of the mix: an empty note list, or the buffer synthesize_midi_notes
\* returned for a non-empty one
VoiceInputs ==
    {[notes |-> "none", buf |-> <<>>]}
    \cup {[notes |-> "some", buf |-> b] : b \in BufsUpTo(0)}

InitMix ==
    /\ pats = <<>>
    /\ bufs = <<>>
    /\ last = NoLast
    /\ proj = NoProj
    /\ ops = 0
    /\ rng = 0
    /\ render = Idle
    /\ \E d \in BufsUpTo(1), b \in VoiceInputs, l \in VoiceInputs :
          mix = [phase |-> "voices", drums |-> d,
                 bass_notes |-> b.notes, bass |-> b.buf,
                 lead_notes |-> l.notes, lead |-> l.buf,
                 bass_audio |-> <<>>, lead_audio |-> <<>>,
                 pk |-> 0, divided |-> FALSE, out |-> <<>>]

\* lines 422-423, 460-461 and 463-480 of generate_edm_local
MixCall ==
    /\ mix.phase = "voices"
    /\ LET bass_audio == VoiceAudio(mix.bass_notes = "some", mix.bass)
           lead_audio == VoiceAudio(mix.lead_notes = "some", mix.lead)
           m == MixDown(mix.drums, bass_audio, lead_audio)
       IN  mix' = [mix EXCEPT !.phase = "mixed", !.pk = m.pk,
                              !.bass_audio = bass_audio, !.lead_audio = lead_audio,
                              !.divided = m.divided, !.out = m.out]
    /\ UNCHANGED <<pats, bufs, rng, last, proj, ops, render>>

NextMix == MixCall

SpecMix == InitMix /\ [][NextMix]_vars

(***************************************************************************)
(* The arrangement of generate_edm_local (lines 305-461) on given          *)
(* descriptors: tempo, scale, chord roots, drum sections and note lists,   *)
(* without the synthesis.  render holds the descriptors and the result.    *)
(***************************************************************************)
Keys == 0 .. 11
Modes == {0, 1}

InitArrange ==
    /\ pats = <<>>
    /\ bufs = <<>>
    /\ last = NoLast
    /\ proj = NoProj
    /\ ops = 0
    /\ mix = Idle
    /\ rng \in 0 .. (RngMod - 1)
    /\ \E key \in Keys, mode \in Modes, tempo \in TempoInputs :
          render = [phase |-> "descriptors", key |-> key, mode |-> mode,
                    raw_tempo |-> tempo]

\* lines 305-461 of generate_edm_local after random.seed, rng being the seeded
\* generator
Arrange ==
    /\ render.phase = "descriptors"
    /\ LET intro == IntroPattern(rng)
           drop == RenderDropPattern(intro.rng)
       IN  /\ render' = [phase |-> "arranged", key |-> render.key,
                         mode |-> render.mode, raw_tempo |-> render.raw_tempo,
                         tempo |-> ForceTempo(render.raw_tempo),
                         root_midi |-> RootMidi(render.key),
                         scale |-> Scale(render.mode),
                         chord_roots |-> [b \in 0 .. 15 |->
                                             ChordRootOfBar(b, render.mode)],
                         intro |-> intro.grid, drop |-> drop.grid,
                         sections |-> DrumSections(intro.grid, drop.grid),
                         bass_notes |-> NotesFrom(0, render.key, render.mode, FALSE),
                         lead_notes |-> NotesFrom(0, render.key, render.mode, TRUE)]
           /\ rng' = drop.rng
    /\ UNCHANGED <<pats, bufs, last, proj, ops, mix>>

NextArrange == Arrange

SpecArrange == InitArrange /\ [][NextArrange]_vars

(***************************************************************************)
(* Two renders in worker threads.  The random module's generator is the    *)
(* one process-wide object rng; a thread runs the seeding and the drawing  *)
(* stretches of generate_edm_local (lines 319-397) one after the other,    *)
(* and the other thread may run between any two of them.                   *)
(***************************************************************************)
NoThread == [pc |-> "seed", track_name |-> "edm", seed |-> 0,
             intro |-> <<>>, drop |-> <<>>]

InitThreads ==
    /\ pats = <<>>
    /\ bufs = <<>>
    /\ last = NoLast
    /\ proj = NoProj
    /\ ops = 0
    /\ mix = Idle
    /\ rng \in 0 .. (RngMod - 1)
    /\ \E salt \in {0, 1}, names \in [Runs -> TrackNames] :
          render = [phase |-> "threads", salt |-> salt,
                    threads |-> [t \in Runs |->
                                    [NoThread EXCEPT !.track_name = names[t]]]]

\* seed = hash(track_name) & 0xFFFFFFFF; random.seed(seed)
SeedStep ==
    \E t \in Runs :
        /\ render.phase = "threads"
        /\ render.threads[t].pc = "seed"
        /\ LET seed == HashName(render.threads[t].track_name, render.salt)
           IN  /\ rng' = RngSeed(seed)
               /\ render' = [render EXCEPT !.threads[t].pc = "intro",
                                           !.threads[t].seed = seed]
        /\ UNCHANGED <<pats, bufs, last, proj, ops, mix>>

\* intro_p: the random.randint draws of lines 359-363
IntroStep ==
    \E t \in Runs :
        /\ render.phase = "threads"
        /\ render.threads[t].pc = "intro"
        /\ LET intro == IntroPattern(rng)
           IN  /\ rng' = intro.rng
               /\ render' = [render EXCEPT !.threads[t].pc = "drop",
                                           !.threads[t].intro = intro.grid]
        /\ UNCHANGED <<pats, bufs, last, proj, ops, mix>>

\* drop_p: the random.randint and random.random draws of lines 383-394
DropStep ==
    \E t \in Runs :
        /\ render.phase = "threads"
        /\ render.threads[t].pc = "drop"
        /\ LET drop == DropHits(rng)
           IN  /\ rng' = drop.rng
               /\ render' = [render EXCEPT !.threads[t].pc = "vary",
                                           !.threads[t].drop = drop.grid]
        /\ UNCHANGED <<pats, bufs, last, proj, ops, mix>>

\* drop_p = PatternVariation.velocity_variation(drop_p, 0.08)
VaryStep ==
    \E t \in Runs :
        /\ render.phase = "threads"
        /\ render.threads[t].pc = "vary"
        /\ LET v == VelocityVariation(render.threads[t].drop, 16, 8, rng)
           IN  /\ rng' = v.rng
               /\ render' = [render EXCEPT !.threads[t].pc = "done",
                                           !.threads[t].drop = v.grid]
        /\ UNCHANGED <<pats, bufs, last, proj, ops, mix>>

NextThreads == SeedStep \/ IntroStep \/ DropStep \/ VaryStep

SpecThreads == InitThreads /\ [][NextThreads]_vars

(***************************************************************************)
(* ADSR.generate on given envelope times.  mix holds the arguments of the  *)
(* call and then its outcome.                                              *)
(***************************************************************************)
\* longest attack, decay and release, in samples
MaxSeg == 3
\* longest envelope, in samples
MaxEnv == 5
\* sustain levels 0.0, 0.7 and 1.0
SustainInputs == {0, 700, 1000}
\* note_duration: None, or a duration of the given sample count
NoteDurations ==
    {[given |-> FALSE, samples |-> 0]}
        \cup {[given |-> TRUE, samples |-> e] : e \in 0 .. (MaxEnv + 1)}

InitEnvelope ==
    /\ pats = <<>>
    /\ bufs = <<>>
    /\ last = NoLast
    /\ proj = NoProj
    /\ ops = 0
    /\ rng = 0
    /\ render = Idle
    /\ \E a \in 0 .. MaxSeg, d \in 0 .. MaxSeg, r \in 0 .. MaxSeg,
          s \in SustainInputs, n \in 0 .. MaxEnv, nd \in NoteDurations :
          mix = [phase |-> "adsr", attack |-> a, decay |-> d, sustain |-> s,
                 release |-> r, num_samples |-> n, note_duration |-> nd,
                 sustain_end |-> 0, err |-> FALSE, envelope |-> <<>>]

\* envelope = ADSR(attack, decay, sustain, release).generate(duration, note_duration)
GenerateEnvelope ==
    /\ mix.phase = "adsr"
    /\ LET sustain_end == IF mix.note_duration.given THEN mix.note_duration.samples
                          ELSE mix.num_samples
           g == AdsrGenerate(mix.attack, mix.decay, mix.sustain, mix.release,
                             mix.num_samples, sustain_end)
       IN  mix' = [mix EXCEPT !.phase = "generated", !.sustain_end = sustain_end,
                              !.err = g.err, !.envelope = g.envelope]
    /\ UNCHANGED <<pats, bufs, rng, last, proj, ops, render>>

NextEnvelope == GenerateEnvelope

SpecEnvelope == InitEnvelope /\ [][NextEnvelope]_vars

(***************************************************************************)
(* mix_tracks on given track sets.  mix holds the tracks and then the      *)
(* buffer after each stage.                                                *)
(***************************************************************************)
\* track names: three with a level of their own and one at the default level
TrackNameInputs == {"drums", "lead", "kick", "pad"}
\* samples of the tracks: -3.0 and 0.7
TrackSamples == {0 - 3000, 700}
TrackBufs == UNION {[1 .. n -> TrackSamples] : n \in 0 .. MaxBuf}
\* the track sets of up to two tracks
TrackSets ==
    UNION {[names -> TrackBufs] :
              names \in {n \in SUBSET TrackNameInputs : Cardinality(n) <= 2}}

InitTracks ==
    /\ pats = <<>>
    /\ bufs = <<>>
    /\ last = NoLast
    /\ proj = NoProj
    /\ ops = 0
    /\ rng = 0
    /\ render = Idle
    /\ \E tracks \in TrackSets :
          mix = [phase |-> "tracks", tracks |-> tracks, summed |-> <<>>,
                 compressed |-> <<>>, scaled |-> <<>>, out |-> <<>>]

\* mixed = synth.mix_tracks(tracks)
MixTracksCall ==
    /\ mix.phase = "tracks"
    /\ LET m == MixTracks(mix.tracks)
       IN  mix' = [mix EXCEPT !.phase = "tracks_mixed", !.summed = m.summed,
                              !.compressed = m.compressed, !.scaled = m.scaled,
                              !.out = m.out]
    /\ UNCHANGED <<pats, bufs, rng, last, proj, ops, render>>

NextTracks == MixTracksCall

SpecTracks == InitTracks /\ [][NextTracks]_vars

(***************************************************************************)
(* Oscillator.generate on given arguments.  mix holds the arguments of the *)
(* call and then the buffer it returned.                                   *)
(***************************************************************************)
\* longest oscillator duration, in hundredths of a second
MaxDuration == 40
\* the members of WaveformType
Waveforms == {"sine", "square", "saw", "triangle", "noise"}
\* frequencies in Hz
FrequencyInputs == {1, 3}
\* initial phases 0 and pi / 2
PhaseInputs == {0, 250}

InitOscillator ==
    /\ pats = <<>>
    /\ bufs = <<>>
    /\ last = NoLast
    /\ proj = NoProj
    /\ ops = 0
    /\ rng = 0
    /\ render = Idle
    /\ \E f \in FrequencyInputs, d \in 0 .. MaxDuration, w \in Waveforms,
          ph \in PhaseInputs, x \in 0 .. (NpMod - 1) :
          mix = [phase |-> "oscillator", frequency |-> f, duration |-> d,
                 waveform |-> w, phase0 |-> ph, np |-> x, out |-> <<>>]

\* out = Oscillator(sample_rate).generate(frequency, duration, waveform, phase)
OscillatorCall ==
    /\ mix.phase = "oscillator"
    /\ LET g == OscillatorGenerate(mix.frequency, mix.duration, mix.waveform,
                                   mix.phase0, mix.np)
       IN  mix' = [mix EXCEPT !.phase = "oscillated", !.out = g.buf, !.np = g.np]
    /\ UNCHANGED <<pats, bufs, rng, last, proj, ops, render>>

NextOscillator == OscillatorCall

SpecOscillator == InitOscillator /\ [][NextOscillator]_vars

(***************************************************************************)
(* The dataset loading logic on given piano rolls.  mix holds the input    *)
(* and then the array the loader returned.                                 *)
(***************************************************************************)
\* most frames of an input piano roll
MaxFrames == 514
\* frame counts around the 512-frame window
FrameInputs == {0, 1, 511, 512, 513, MaxFrames}
\* end times of a file, in hundredths of a second, around 512 frames at fs = 4
EndTimeInputs == {0, 25, 12750, 12775, 12800 + (MaxFrames - 512) * 25}

InitLoad ==
    /\ pats = <<>>
    /\ bufs = <<>>
    /\ last = NoLast
    /\ proj = NoProj
    /\ ops = 0
    /\ render = Idle
    /\ rng \in 0 .. (RngMod - 1)
    /\ \/ \E n_rows \in 0 .. 128, n_frames \in FrameInputs :
             mix = [phase |-> "roll", n_rows |-> n_rows, n_frames |-> n_frames,
                    end_time |-> 0, none |-> FALSE, rows |-> <<>>, cols |-> <<>>]
       \/ \E end_time \in EndTimeInputs :
             mix = [phase |-> "file", n_rows |-> 0, n_frames |-> 0,
                    end_time |-> end_time, none |-> FALSE, rows |-> <<>>,
                    cols |-> <<>>]

\* test_midi_loading on the piano roll get_piano_roll returned
TestMidiLoadingCall ==
    /\ mix.phase = "roll"
    /\ LET r == TestMidiLoading(InputRoll(mix.n_rows, mix.n_frames), rng)
       IN  /\ mix' = [mix EXCEPT !.phase = "loaded", !.rows = r.rows,
                                 !.cols = r.cols]
           /\ rng' = r.rng
    /\ UNCHANGED <<pats, bufs, last, proj, ops, render>>

\* fast_midi_to_pianoroll(filepath)
FastMidiToPianorollCall ==
    /\ mix.phase = "file"
    /\ LET r == FastMidiToPianoroll(mix.end_time, rng)
       IN  /\ mix' = [mix EXCEPT !.phase = "fast_loaded", !.none = r.none,
                                 !.rows = r.rows, !.cols = r.cols]
           /\ rng' = r.rng
    /\ UNCHANGED <<pats, bufs, last, proj, ops, render>>

NextLoad == TestMidiLoadingCall \/ FastMidiToPianorollCall

SpecLoad == InitLoad /\ [][NextLoad]_vars

(***************************************************************************)
(* EDMPatternLibrary.drop_pattern on given step counts.  mix holds the     *)
(* step count, the state of the random generator before the call and the   *)
(* grid of the pattern returned.                                           *)
(***************************************************************************)
\* largest step count handed to drop_pattern
MaxLibrarySteps == 64

InitLibrary ==
    /\ pats = <<>>
    /\ bufs = <<>>
    /\ last = NoLast
    /\ proj = NoProj
    /\ ops = 0
    /\ render = Idle
    /\ rng \in 0 .. (RngMod - 1)
    /\ \E steps \in 1 .. MaxLibrarySteps :
          mix = [phase |-> "library", steps |-> steps, rng0 |-> rng, grid |-> <<>>]

\* pattern = EDMPatternLibrary.drop_pattern(steps)
DropPatternCall ==
    /\ mix.phase = "library"
    /\ mix' = [mix EXCEPT !.phase = "drop_pattern",
                          !.grid = DropPattern(mix.steps)]
    /\ UNCHANGED <<pats, bufs, rng, last, proj, ops, render>>

NextLibrary == DropPatternCall

SpecLibrary == InitLibrary /\ [][NextLibrary]_vars

(***************************************************************************)
(* PatternVariation.velocity_variation on patterns of given hit            *)
(* velocities.  mix holds the input grid, the variation amount in          *)
(* hundredths and the grid of the pattern returned.                        *)
(***************************************************************************)
\* variation_amount values, in hundredths
AmountInputs == {0, 20, 50, 100}

\* a pattern with a kick of velocity v on step 0 and a snare of velocity
\* 128 - v on the last step
JitterInput(v) ==
    AddHitGrid(AddHitGrid(ZeroGrid(MaxSteps), MaxSteps, 0, KICK, v),
               MaxSteps, MaxSteps - 1, SNARE, 128 - v)

InitJitter ==
    /\ pats = <<>>
    /\ bufs = <<>>
    /\ last = NoLast
    /\ proj = NoProj
    /\ ops = 0
    /\ render = Idle
    /\ rng \in 0 .. (RngMod - 1)
    /\ \E v \in 1 .. MaxVelocity, a \in AmountInputs :
          mix = [phase |-> "pattern", grid |-> JitterInput(v), amount |-> a,
                 varied |-> <<>>]

\* varied = PatternVariation.velocity_variation(pattern, variation_amount)
JitterCall ==
    /\ mix.phase = "pattern"
    /\ LET r == VelocityVariation(mix.grid, MaxSteps, mix.amount, rng)
       IN  /\ mix' = [mix EXCEPT !.phase = "varied", !.varied = r.grid]
           /\ rng' = r.rng
    /\ UNCHANGED <<pats, bufs, last, proj, ops, render>>

NextJitter == JitterCall

SpecJitter == InitJitter /\ [][NextJitter]_vars

(***************************************************************************)
(* Sidechain compression of a voice buffer by a trigger buffer, called     *)
(* with its default parameters or through apply_sidechain_to_track as      *)
(* render_full_track does for the bass and the lead.                       *)
(***************************************************************************)
\* the ways sidechain_compress is called
SidechainCallers == {"default", "lead"}

InitSidechain ==
    /\ pats = <<>>
    /\ bufs = <<>>
    /\ last = NoLast
    /\ proj = NoProj
    /\ ops = 0
    /\ rng = 0
    /\ render = Idle
    /\ \E audio \in TrackBufs, trigger \in BufsUpTo(0), by \in SidechainCallers :
          mix = [phase |-> "sidechain", audio |-> audio, trigger |-> trigger,
                 by |-> by, gain |-> <<>>, out |-> <<>>]

\* effects.sidechain_compress(audio, trigger) or
\* apply_sidechain_to_track(lead, kick_audio, strength=0.3)
SidechainCall ==
    /\ mix.phase = "sidechain"
    /\ LET r == IF mix.by = "default"
                THEN SidechainCompress(mix.audio, mix.trigger, 300, 40, 10, 200)
                ELSE ApplySidechainToTrack(mix.audio, mix.trigger, 3)
       IN  mix' = [mix EXCEPT !.phase = "sidechained", !.gain = r.gain, !.out = r.out]
    /\ UNCHANGED <<pats, bufs, rng, last, proj, ops, render>>

NextSidechain == SidechainCall

SpecSidechain == InitSidechain /\ [][NextSidechain]_vars

(***************************************************************************)
(* The job API of the ML service (api/routes.py).  mix holds job_store,    *)
(* the background tasks added by the endpoints, the ids deleted so far and *)
(* the outcome of the last request.  The handlers and the background tasks *)
(* are coroutines of one event loop; a background task starts some time    *)
(* after its endpoint has returned and, having no await, holds the loop    *)
(* from its first line to its last.                                        *)
(***************************************************************************)
\* number of job ids uuid4 hands out
MaxJobs == 2
JobIds == 1 .. MaxJobs

NoJob == [status |-> "absent", type |-> "none", pipeline |-> FALSE]
NoTask == [pc |-> "none", fn |-> "none"]
NoResponse == [op |-> "none", code |-> 0]

\* the statuses of JobResponse.status
JobResponseStatuses == {"queued", "running", "completed", "failed"}

InitJobs ==
    /\ pats = <<>>
    /\ bufs = <<>>
    /\ last = NoLast
    /\ proj = NoProj
    /\ ops = 0
    /\ rng = 0
    /\ render = Idle
    /\ mix = [phase |-> "api", next_id |-> 1,
              job_store |-> [j \in JobIds |-> NoJob],
              tasks |-> [j \in JobIds |-> NoTask],
              deleted |-> {}, response |-> NoResponse]

\* job_id in job_store
InJobStore(j) == mix.job_store[j].status # "absent"

\* no background task is between its first and its last line
LoopFree == \A j \in JobIds : mix.tasks[j].pc # "running"

\* job_store[job_id] = {...}; background_tasks.add_task(fn, job_id, ...)
CreateJob(status, type, pipeline, fn, op) ==
    /\ LoopFree
    /\ mix.next_id <= MaxJobs
    /\ mix' = [mix EXCEPT !.next_id = @ + 1,
                          !.job_store[mix.next_id] =
                              [status |-> status, type |-> type, pipeline |-> pipeline],
                          !.tasks[mix.next_id] =
                              IF fn = "none" THEN NoTask
                              ELSE [pc |-> "added", fn |-> fn],
                          !.response = [op |-> op, code |-> 200]]
    /\ UNCHANGED <<pats, bufs, rng, last, proj, ops, render>>

\* POST /save-spotify-tracks
SaveSpotifyTracks ==
    CreateJob("queued", "matching", FALSE, "trigger_modal_matching", "save_spotify_tracks")

\* POST /start-training
StartTraining ==
    CreateJob("pending", "training", FALSE, "none", "start_training")

\* POST /generate-music
GenerateMusic ==
    CreateJob("queued", "generation", FALSE, "trigger_modal_generation", "generate_music")

\* POST /pipeline/full
RunFullPipeline ==
    CreateJob("queued", "matching", TRUE, "trigger_modal_matching", "run_full_pipeline")

\* GET /training-status/{job_id}: 404 for an unknown job; JobResponse(...)
\* raises a validation error, an HTTP 500, on a status it does not accept
GetTrainingStatus ==
    \E j \in JobIds :
        /\ LoopFree
        /\ mix' = [mix EXCEPT !.response =
                       [op |-> "get_training_status",
                        code |-> IF ~InJobStore(j) THEN 404
                                 ELSE IF mix.job_store[j].status \in JobResponseStatuses
                                      THEN 200 ELSE 500]]
        /\ UNCHANGED <<pats, bufs, rng, last, proj, ops, render>>

\* DELETE /jobs/{job_id}
DeleteJob ==
    \E j \in JobIds :
        /\ LoopFree
        /\ IF ~InJobStore(j)
           THEN mix' = [mix EXCEPT !.response = [op |-> "delete_job", code |-> 404]]
           ELSE mix' = [mix EXCEPT !.job_store[j] = NoJob,
                                   !.deleted = @ \cup {j},
                                   !.response = [op |-> "delete_job", code |-> 200]]
        /\ UNCHANGED <<pats, bufs, rng, last, proj, ops, render>>

\* trigger_modal_matching / trigger_modal_generation up to the Modal call:
\* job_store[job_id]["status"] = "running" raises KeyError for a deleted job,
\* and so does job_store[job_id]["status"] = "failed" in the except clause
TaskStart ==
    \E j \in JobIds :
        /\ LoopFree
        /\ mix.tasks[j].pc = "added"
        /\ IF ~InJobStore(j)
           THEN mix' = [mix EXCEPT !.tasks[j].pc = "raised"]
           ELSE mix' = [mix EXCEPT !.tasks[j].pc = "running",
                                   !.job_store[j].status = "running"]
        /\ UNCHANGED <<pats, bufs, rng, last, proj, ops, render>>

\* the Modal call and the lines after it: the job is completed, or failed
\* when the import or the remote call raised
TaskFinish ==
    \E j \in JobIds, raised \in BOOLEAN :
        /\ mix.tasks[j].pc = "running"
        /\ IF ~InJobStore(j)
           THEN mix' = [mix EXCEPT !.tasks[j].pc = "raised"]
           ELSE mix' = [mix EXCEPT !.tasks[j].pc = "ended",
                                   !.job_store[j].status =
                                       IF raised THEN "failed" ELSE "completed"]
        /\ UNCHANGED <<pats, bufs, rng, last, proj, ops, render>>

NextJobs ==
    \/ SaveSpotifyTracks
    \/ StartTraining
    \/ GenerateMusic
    \/ RunFullPipeline
    \/ GetTrainingStatus
    \/ DeleteJob
    \/ TaskStart
    \/ TaskFinish

SpecJobs == InitJobs /\ [][NextJobs]_vars

(***************************************************************************)
(* MIDI export of a pattern.  mix holds the pattern, the number of bars    *)
(* and the track written.                                                  *)
(***************************************************************************)
\* largest number of repetitions
MaxBars == 3
\* step counts of the exported patterns
MidiStepInputs == {2, 16}

\* the hits a pattern is made of: any of a kick and a clap on step 0, a snare
\* on step 1 and a closed hi-hat on the last step
MidiHitInputs(steps) ==
    {<<0, KICK, 100>>, <<0, CLAP, 90>>, <<1, SNARE, 127>>, <<steps - 1, HIHAT_CLOSED, 60>>}

RECURSIVE GridOfHits(_, _)
GridOfHits(steps, hits) ==
    IF hits = {} THEN ZeroGrid(steps)
    ELSE LET h == CHOOSE x \in hits : TRUE
         IN  AddHitGrid(GridOfHits(steps, hits \ {h}), steps, h[1], h[2], h[3])

InitMidi ==
    /\ pats = <<>>
    /\ bufs = <<>>
    /\ last = NoLast
    /\ proj = NoProj
    /\ ops = 0
    /\ rng = 0
    /\ render = Idle
    /\ \E steps \in MidiStepInputs, bars \in 1 .. MaxBars :
          \E hits \in SUBSET MidiHitInputs(steps) :
              mix = [phase |-> "pattern_for_midi", steps |-> steps, bars |-> bars,
                     grid |-> GridOfHits(steps, hits), track |-> <<>>]

\* DrumMIDIConverter().pattern_to_midi(pattern, output_file, bars)
PatternToMidiCall ==
    /\ mix.phase = "pattern_for_midi"
    /\ mix' = [mix EXCEPT !.phase = "midi_written",
                          !.track = PatternToMidi(mix.grid, mix.steps, mix.bars)]
    /\ UNCHANGED <<pats, bufs, rng, last, proj, ops, render>>

NextMidi == PatternToMidiCall

SpecMidi == InitMidi /\ [][NextMidi]_vars

(***************************************************************************)
(* Claims about the pattern model.                                         *)
(***************************************************************************)
VariationOps == {"add_fills", "velocity_variation", "shift_pattern", "reverse_pattern"}

\* pattern k is the result of a variation operator applied to pattern i
VariationOf(k, i) == pats[k].by \in VariationOps /\ pats[k].src = i

\* C2: after any sequence of pattern creations and add_hit / remove_hit calls
\* every cell of every pattern's grid holds a velocity in [0, 127].
C2_VelocityRange ==
    \A i \in PatIds : \A c \in Cells(pats[i].steps) :
        0 <= GridOf(i)[c] /\ GridOf(i)[c] <= 127

\* the cell value an input of combine_patterns contributes: its velocity, or 0
\* when the input has no such step
InputCell(i, c) == IF c[1] < pats[i].steps THEN GridOf(i)[c] ELSE 0

RECURSIVE MaxCell(_, _)
MaxCell(args, c) ==
    IF Len(args) = 1 THEN InputCell(args[1], c)
    ELSE Max2(InputCell(args[1], c), MaxCell(Tail(args), c))

RECURSIVE LargestSteps(_)
LargestSteps(args) ==
    IF Len(args) = 1 THEN pats[args[1]].steps
    ELSE Max2(pats[args[1]].steps, LargestSteps(Tail(args)))

\* C5: combine_patterns(P1..Pn) returns a pattern whose step count is the
\* largest step count of its inputs and whose every cell holds the maximum of
\* the inputs' velocities at that cell (an input without that step counts as 0),
\* whatever the argument order.
C5_CombineIsMax ==
    (last.op = "combine_patterns" /\ last.args # <<>>) =>
        /\ pats[last.res].steps = LargestSteps(last.args)
        /\ \A c \in Cells(pats[last.res].steps) :
              GridOf(last.res)[c] = MaxCell(last.args, c)

\* C6: add_hit(step, drum_type, velocity) with 0 <= step < steps stores
\* min(max(velocity, 0), 127) in cell (step, drum_type) and changes no other
\* cell; with step out of range it leaves the whole grid unchanged.
C6_AddHit ==
    last.op = "add_hit" =>
        LET before == last.pres[last.a]
            inRange == 0 <= last.step /\ last.step < pats[last.a].steps
            stored == IF last.vel < 0 THEN 0
                      ELSE IF last.vel > 127 THEN 127 ELSE last.vel
        IN  \A c \in Cells(pats[last.a].steps) :
                GridOf(last.a)[c] =
                    IF inRange /\ c = <<last.step, last.drum>> THEN stored
                    ELSE before[c]

\* an in-range add_hit whose velocity was clamped, on a grid with another hit
C6_Witness ==
    /\ last.op = "add_hit"
    /\ last.step = 0 /\ last.vel = 200
    /\ GridOf(last.a)[<<0, last.drum>>] = 127
    /\ \E c \in Cells(pats[last.a].steps) :
          c # <<0, last.drum>> /\ GridOf(last.a)[c] > 0

\* C7: each variation operator leaves its input's grid unchanged, and any later
\* add_hit or remove_hit on the result leaves the input's grid unchanged, and
\* any later add_hit or remove_hit on the input leaves the result's grid
\* unchanged.
C7_VariationIsolated ==
    /\ last.op \in VariationOps => GridOf(last.a) = last.pres[last.a]
    /\ last.op \in {"add_hit", "remove_hit"} =>
          \A i \in PatIds :
              (VariationOf(last.a, i) \/ VariationOf(i, last.a)) =>
                  GridOf(i) = last.pres[i]

\* C8: reverse_pattern flips the step order, and the grid of
\* reverse_pattern(reverse_pattern(P)) equals the grid of P.
C8_Reverse ==
    last.op = "reverse_pattern" =>
        /\ pats[last.res].steps = pats[last.a].steps
        /\ \A c \in Cells(pats[last.a].steps) :
              GridOf(last.res)[c] =
                  last.pres[last.a][<<pats[last.a].steps - 1 - c[1], c[2]>>]
        /\ pats[last.a].by = "reverse_pattern" =>
              GridOf(last.res) = GridOf(pats[last.a].src)

\* a second reversal of a pattern whose reversal differs from it
C8_Witness ==
    /\ last.op = "reverse_pattern"
    /\ pats[last.a].by = "reverse_pattern"
    /\ GridOf(last.res) # GridOf(last.a)
    /\ GridOf(last.res) = GridOf(pats[last.a].src)

\* C9: to_binary and to_normalized change no grid; to_binary yields 1 exactly
\* at the cells with velocity > 0 and 0 elsewhere; calling it again, or
\* projecting the pattern from_array rebuilds from the projection, yields the
\* same array.
C9_Projections ==
    /\ last.op \in {"to_binary", "to_normalized"} => AllGrids = last.pres
    /\ last.op = "to_binary" =>
          /\ \A c \in Cells(pats[last.a].steps) :
                proj.arr[c] = IF GridOf(last.a)[c] > 0 THEN ArrOne ELSE 0
          /\ (last.prev.kind = "binary" /\ last.prev.of = last.a /\ last.prev.fresh) =>
                proj.arr = last.prev.arr
    /\ (last.op = "from_array_proj" /\ proj.kind = "binary") =>
          ToBinary(GridOf(last.res), pats[last.res].steps) = proj.arr

\* a pattern rebuilt from the binary projection of a pattern that has hits
C9_Witness ==
    /\ last.op = "from_array_proj"
    /\ proj.kind = "binary"
    /\ \E c \in Cells(proj.steps) : proj.arr[c] = ArrOne
    /\ \E c \in Cells(proj.steps) : proj.arr[c] = 0

\* C10: get_hits() returns exactly one DrumHit for each grid cell with a
\* non-zero velocity, carrying that cell's step, drum type and velocity, ordered
\* by step ascending and within one step by drum type ascending; it does not
\* change the grid.
C10_GetHits ==
    last.op = "get_hits" =>
        LET h == last.out
            g == GridOf(last.a)
        IN  /\ AllGrids = last.pres
            /\ \A k \in 1 .. Len(h) :
                  /\ <<h[k].step, h[k].drum_type>> \in Cells(pats[last.a].steps)
                  /\ g[<<h[k].step, h[k].drum_type>>] = h[k].velocity
            /\ \A c \in Cells(pats[last.a].steps) :
                  Cardinality({k \in 1 .. Len(h) :
                                  h[k].step = c[1] /\ h[k].drum_type = c[2]})
                    = IF g[c] # 0 THEN 1 ELSE 0
            /\ \A j \in 1 .. Len(h) : \A k \in 1 .. Len(h) :
                  j < k => \/ h[j].step < h[k].step
                           \/ /\ h[j].step = h[k].step
                              /\ h[j].drum_type < h[k].drum_type

(***************************************************************************)
(* Claims about the render.                                                *)
(***************************************************************************)
RunDone(r) == render.phase = "serving" /\ render.runs[r].done

\* C1: two runs of generate_edm_local with the same descriptor record and the
\* same track name produce identical sample buffers.
C1_Deterministic ==
    (/\ RunDone("first")
     /\ RunDone("second")
     /\ render.runs["first"].features = render.runs["second"].features)
    => render.runs["first"].out = render.runs["second"].out

\* C3: every sample of the final mix lies in [-1, 1] and within the limiter
\* ceiling 0.92; a mix whose peak is 0 is not divided by its peak and stays
\* all-zero.
C3_MixBounded ==
    mix.phase = "mixed" =>
        /\ \A k \in 1 .. Len(mix.out) :
              /\ 0 - 1000 <= mix.out[k] /\ mix.out[k] <= 1000
              /\ Abs(mix.out[k]) <= 920
        /\ Len(mix.out) = Max2(Len(mix.drums), Max2(Len(mix.bass), Len(mix.lead)))
        /\ mix.pk = 0 => (~mix.divided /\ \A k \in 1 .. Len(mix.out) : mix.out[k] = 0)
        /\ mix.pk > 0 => mix.divided

\* a mix of peak 0 and a mix whose weighted sum exceeds 1.0 have both been made
C3_Witness ==
    /\ mix.phase = "mixed"
    /\ mix.pk > 1000
    /\ \E k \in 1 .. Len(mix.out) : Abs(mix.out[k]) > 800

C3_WitnessZeroPeak ==
    /\ mix.phase = "mixed"
    /\ mix.pk = 0
    /\ Len(mix.out) = MaxBuf

\* raw tempo doubled below 100, in tenths of a BPM
Doubled(raw10) == IF raw10 < 1000 THEN 2 * raw10 ELSE raw10

\* C4 as stated: the render tempo is the raw tempo, doubled below 100 BPM, then
\* clamped to [130, 180].
C4_TempoAsStated ==
    \A r \in Runs : RunDone(r) =>
        render.runs[r].tempo * 10 =
            Max2(1300, Min2(1800, Doubled(render.runs[r].features.tempo)))

\* C4: the render tempo is the raw tempo, doubled below 100 BPM, truncated to
\* a whole number and then clamped to [130, 180]; it always lies in [130, 180],
\* and raw 90 gives 180, raw 128 gives 130, raw 200 gives 180.
C4_Tempo ==
    \A r \in Runs : RunDone(r) =>
        LET raw10 == render.runs[r].features.tempo
            tempo == render.runs[r].tempo
        IN  /\ tempo = Max2(130, Min2(180, TruncDiv(Doubled(raw10), 10)))
            /\ 130 <= tempo /\ tempo <= 180
            /\ raw10 = 900 => tempo = 180
            /\ raw10 = 1280 => tempo = 130
            /\ raw10 = 2000 => tempo = 180

\* a run doubled its tempo and another truncated a fractional tempo in range
C4_Witness ==
    /\ RunDone("first") /\ RunDone("second")
    /\ render.runs["first"].features.tempo = 900
    /\ render.runs["first"].tempo = 180
    /\ render.runs["second"].features.tempo = 1505
    /\ render.runs["second"].tempo = 150

\* C11: whatever energy, valence and danceability are supplied (below 0 and
\* above 1 included), the render completes and the energy, valence and
\* danceability of its SynthConfig lie in [0, 1].
C11_ConfigInUnitRange ==
    \A r \in Runs : RunDone(r) =>
        /\ 0 <= render.runs[r].energy /\ render.runs[r].energy <= 100
        /\ 0 <= render.runs[r].valence /\ render.runs[r].valence <= 100
        /\ 0 <= render.runs[r].danceability /\ render.runs[r].danceability <= 100

\* the mix of the drums with the voices given, without its peak
MixOf(drums, bass, lead) == MixDown(drums, bass, lead).out

\* C12: a voice whose note list is empty is rendered as one all-zero sample,
\* the mix is made without error and equals the mix made without that voice.
C12_EmptyVoice ==
    mix.phase = "mixed" =>
        /\ mix.bass_notes = "none" =>
              /\ mix.bass_audio = <<0>>
              /\ mix.out = MixOf(mix.drums, <<>>, mix.lead_audio)
        /\ mix.lead_notes = "none" =>
              /\ mix.lead_audio = <<0>>
              /\ mix.out = MixOf(mix.drums, mix.bass_audio, <<>>)
        /\ Len(mix.out) =
              Max2(Len(mix.drums), Max2(Len(mix.bass_audio), Len(mix.lead_audio)))

\* a mix with audible drums and lead and an empty bass note list was made
C12_Witness ==
    /\ mix.phase = "mixed"
    /\ mix.bass_notes = "none"
    /\ mix.lead_notes = "some"
    /\ Len(mix.lead) = MaxBuf
    /\ mix.pk > 0
    /\ \E k \in 1 .. Len(mix.out) : mix.out[k] # 0

(***************************************************************************)
(* Claims about the arrangement.                                           *)
(***************************************************************************)
Arranged == render.phase = "arranged"

\* the notes of a list that start in bar b (a bar is 800 ticks)
NotesOfBar(notes, b) ==
    {i \in 1 .. Len(notes) : b * 800 <= notes[i][2] /\ notes[i][2] < (b + 1) * 800}

\* C13: the scale is the major scale for mode 1 and the natural minor for
\* mode 0, rooted at 48 + key; bar b's chord root is entry b mod 4 of
\* 0,4,5,3 (major) or 0,5,2,6 (minor); bar b's bass pitch is
\* 48 + key + scale[root] - 12.
C13_ScaleAndChords ==
    Arranged =>
        LET major == render.mode = 1
            scale == IF major THEN <<0, 2, 4, 5, 7, 9, 11>>
                              ELSE <<0, 2, 3, 5, 7, 8, 10>>
            prog == IF major THEN <<0, 4, 5, 3>> ELSE <<0, 5, 2, 6>>
        IN  /\ render.scale = scale
            /\ render.root_midi = 48 + render.key
            /\ \A b \in 0 .. 15 :
                  /\ render.chord_roots[b] = prog[(b % 4) + 1]
                  /\ \A i \in NotesOfBar(render.bass_notes, b) :
                        render.bass_notes[i][1] =
                            48 + render.key + scale[prog[(b % 4) + 1] + 1] - 12

\* a minor arrangement in the highest key has bass notes in its last bar
C13_Witness ==
    /\ Arranged
    /\ render.mode = 0
    /\ render.key = 11
    /\ NotesOfBar(render.bass_notes, 15) # {}
    /\ \A i \in NotesOfBar(render.bass_notes, 15) : render.bass_notes[i][1] = 57

\* the pitch classes of the chord tones of bar b: the chord root and the
\* degree four scale steps above it
ChordTones(b) ==
    LET cr == render.chord_roots[b]
    IN  {(render.key + render.scale[((cr + d) % 7) + 1]) % 12 : d \in {0, 4}}

\* C14: the drum sections are the intro pattern for 4 bars, the four build
\* patterns for one bar each and the drop pattern for 8 bars, 16 bars in all
\* and in this order; no bass note starts in bars 0-3, one bass note held for
\* most of the bar starts in each of bars 4-7 and eight bass notes on the
\* eighths in each of bars 8-15; the lead has two long chord tones in each of
\* bars 0-3 and eight notes on the eighths in each of bars 4-15.
C14_Sections ==
    Arranged =>
        LET sec == render.sections
            bass == render.bass_notes
            lead == render.lead_notes
            onEighths(notes, b) ==
                /\ Cardinality(NotesOfBar(notes, b)) = 8
                /\ {notes[i][2] : i \in NotesOfBar(notes, b)}
                       = {b * 800 + j * 100 : j \in 0 .. 7}
                /\ \A i \in NotesOfBar(notes, b) : notes[i][3] < 100
        IN  /\ [k \in 1 .. Len(sec) |-> sec[k].bars] = <<4, 1, 1, 1, 1, 8>>
            /\ sec[1].grid = render.intro
            /\ \A bi \in 0 .. 3 : sec[bi + 2].grid = BuildPattern(bi)
            /\ sec[6].grid = render.drop
            /\ \A i \in 1 .. (Len(bass) - 1) : bass[i][2] < bass[i + 1][2]
            /\ \A i \in 1 .. (Len(lead) - 1) : lead[i][2] < lead[i + 1][2]
            /\ \A i \in 1 .. Len(bass) : bass[i][2] \in 0 .. (16 * 800 - 1)
            /\ \A i \in 1 .. Len(lead) : lead[i][2] \in 0 .. (16 * 800 - 1)
            /\ \A b \in 0 .. 3 :
                  /\ NotesOfBar(bass, b) = {}
                  /\ Cardinality(NotesOfBar(lead, b)) = 2
                  /\ \A i \in NotesOfBar(lead, b) :
                        /\ lead[i][3] > 200
                        /\ lead[i][1] % 12 \in ChordTones(b)
            /\ \A b \in 4 .. 7 :
                  /\ Cardinality(NotesOfBar(bass, b)) = 1
                  /\ \A i \in NotesOfBar(bass, b) : bass[i][3] > 400
                  /\ onEighths(lead, b)
            /\ \A b \in 8 .. 15 :
                  /\ onEighths(bass, b)
                  /\ onEighths(lead, b)

\* an arrangement whose drop section spans 8 bars and whose first drop bar
\* holds eight bass notes and eight lead notes
C14_Witness ==
    /\ Arranged
    /\ render.sections[6].bars = 8
    /\ Cardinality(NotesOfBar(render.bass_notes, 8)) = 8
    /\ Cardinality(NotesOfBar(render.lead_notes, 8)) = 8
    /\ Cardinality(NotesOfBar(render.lead_notes, 0)) = 2

\* C15: at every tempo of 130..180 BPM every bass and lead note has a velocity
\* of 0..1, a start >= 0 and an end (start + duration) within its own bar and
\* so within the 16 bars of the render, in ticks and in samples.
C15_NotesInBounds ==
    Arranged =>
        /\ render.tempo \in 130 .. 180
        /\ \A notes \in {render.bass_notes, render.lead_notes} :
              \A i \in 1 .. Len(notes) :
                 LET n == notes[i]
                     bar == n[2] \div 800
                 IN  /\ n[4] \in 0 .. 100
                     /\ n[2] >= 0
                     /\ n[3] >= 0
                     /\ n[2] + n[3] <= (bar + 1) * 800
                     /\ n[2] + n[3] <= 16 * 800
                     /\ SampleOfTick(n[2] + n[3], render.tempo)
                            <= SampleOfTick(16 * 800, render.tempo)

\* an arrangement at the fastest tempo whose last lead note ends in bar 15
C15_Witness ==
    /\ Arranged
    /\ render.tempo = 180
    /\ \E i \in 1 .. Len(render.lead_notes) :
          /\ render.lead_notes[i][2] = 15 * 800 + 700
          /\ render.lead_notes[i][2] + render.lead_notes[i][3] = 15 * 800 + 780
    /\ \E i \in 1 .. Len(render.bass_notes) : render.bass_notes[i][4] = 76

(***************************************************************************)
(* Claims about renders in worker threads.                                 *)
(***************************************************************************)
\* the patterns a render of the given seed draws when it runs alone
AloneIntro(seed) == IntroPattern(RngSeed(seed))
AloneDrop(seed) == RenderDropPattern(AloneIntro(seed).rng)

\* C16: a render that has finished drawing, whatever the other render did in
\* between, holds the intro and drop patterns it draws when it runs alone.
C16_PatternsAsAlone ==
    render.phase = "threads" =>
        \A t \in Runs :
            render.threads[t].pc = "done" =>
                /\ render.threads[t].intro = AloneIntro(render.threads[t].seed).grid
                /\ render.threads[t].drop = AloneDrop(render.threads[t].seed).grid

(***************************************************************************)
(* Claims about ADSR.generate.                                             *)
(***************************************************************************)
Generated == mix.phase = "generated"

\* the envelope does not rise / does not fall over samples lo..hi
Rising(env, lo, hi) == \A k \in lo .. (hi - 1) : env[k] <= env[k + 1]
Falling(env, lo, hi) == \A k \in lo .. (hi - 1) : env[k] >= env[k + 1]

\* the shape of C17 on a returned envelope whose note is longer than attack
\* plus decay and no longer than the envelope
AdsrShape ==
    LET env == mix.envelope
        a == mix.attack
        d == mix.decay
        e == mix.sustain_end
        n == mix.num_samples
        rend == Min2(e + mix.release, n)
    IN  /\ a > 0 => env[1] = 0 /\ Rising(env, 1, a)
        /\ a > 1 => env[a] = 1000
        /\ d > 0 => env[a + 1] = 1000 /\ Falling(env, a + 1, a + d)
        /\ d > 1 => env[a + d] = mix.sustain
        /\ \A k \in (a + d + 1) .. e : env[k] = mix.sustain
        /\ mix.release > 0 => Falling(env, e, rend)
        /\ rend > e + 1 => env[rend] = 0

\* C17: when attack + decay is shorter than the note, the envelope rises from
\* 0 to 1 over the attack, falls from 1 to the sustain level over the decay,
\* equals the sustain level from the end of the decay up to note_duration and
\* falls to 0 over the release, note_duration given or omitted.
C17_Shape ==
    (/\ Generated
     /\ ~mix.err
     /\ mix.attack + mix.decay < mix.sustain_end
     /\ mix.sustain_end <= mix.num_samples) => AdsrShape

\* the shape of C17 for the calls that give a note_duration shorter than the
\* duration
C17_ShapeOfShorterNote ==
    (/\ Generated
     /\ ~mix.err
     /\ mix.attack + mix.decay < mix.sustain_end
     /\ mix.sustain_end < mix.num_samples) => AdsrShape

\* C18: the call returns without error an envelope of num_samples samples,
\* whatever the attack, decay and release are.
C18_ReturnsFullLength ==
    Generated => ~mix.err /\ Len(mix.envelope) = mix.num_samples

\* a returned envelope has num_samples samples
C18_LengthWhenReturned ==
    (Generated /\ ~mix.err) => Len(mix.envelope) = mix.num_samples

\* C19: every sample of a returned envelope lies in 0..1.
C19_UnitRange ==
    (Generated /\ ~mix.err) =>
        \A k \in 1 .. Len(mix.envelope) : mix.envelope[k] \in 0 .. 1000

\* a returned envelope whose attack reaches 1, whose release starts from the
\* sustain level 0.7 and which holds a value strictly between 0 and 0.7
C19_Witness ==
    /\ Generated
    /\ ~mix.err
    /\ mix.sustain = 700
    /\ mix.attack >= 2
    /\ mix.release >= 2
    /\ \E k \in 1 .. Len(mix.envelope) : mix.envelope[k] = 1000
    /\ \E k \in 1 .. Len(mix.envelope) : mix.envelope[k] \in 1 .. 699

(***************************************************************************)
(* Claims about mix_tracks.                                                *)
(***************************************************************************)
TracksMixed == mix.phase = "tracks_mixed"

\* the longest track of the set, 0 for the empty set
LongestTrack == MaxOf({0} \cup {Len(mix.tracks[t]) : t \in DOMAIN mix.tracks})

\* sample k of track t at its level, 0 past the track's end
LevelledSample(t, k) ==
    IF k <= Len(mix.tracks[t])
    THEN TruncDiv(mix.tracks[t][k] * TrackLevel(t), 100)
    ELSE 0

\* the sum of sample k over the tracks named in names
RECURSIVE SumOfSamples(_, _)
SumOfSamples(names, k) ==
    IF names = {} THEN 0
    ELSE LET t == CHOOSE n \in names : TRUE
         IN  LevelledSample(t, k) + SumOfSamples(names \ {t}, k)

\* C20: the output is as long as the longest track; the sum holds every sample
\* of every track at the track's level, shorter tracks counting as zero past
\* their end; the compressor works on the sum, the master volume on the
\* compressor's output and the soft limiter, last, on the master volume's;
\* an empty track set gives an empty buffer.
C20_MixTracks ==
    TracksMixed =>
        /\ Len(mix.out) = LongestTrack
        /\ Len(mix.summed) = LongestTrack
        /\ \A k \in 1 .. LongestTrack :
              /\ mix.summed[k] = SumOfSamples(DOMAIN mix.tracks, k)
              /\ Abs(mix.compressed[k]) <= Abs(mix.summed[k])
              /\ mix.compressed[k] * mix.summed[k] >= 0
              /\ mix.scaled[k] = TruncDiv(mix.compressed[k] * 8, 10)
              /\ mix.out[k] = TruncDiv(Tanh(TruncDiv(mix.scaled[k] * 12, 10)) * 9, 10)
              /\ Abs(mix.out[k]) <= 900
        /\ mix.compressed = Compressor(mix.summed)
        /\ DOMAIN mix.tracks = {} => mix.out = <<>>

\* a mix of two tracks of different lengths in which the compressor reduced a
\* sample, the shorter track was padded and the limiter changed the value
C20_Witness ==
    /\ TracksMixed
    /\ Cardinality(DOMAIN mix.tracks) = 2
    /\ \E t \in DOMAIN mix.tracks : Len(mix.tracks[t]) < LongestTrack
    /\ \E k \in 1 .. LongestTrack :
          /\ Abs(mix.compressed[k]) < Abs(mix.summed[k])
          /\ mix.out[k] # mix.scaled[k]

\* the empty track set was mixed to the empty buffer
C20_WitnessEmpty ==
    /\ TracksMixed
    /\ DOMAIN mix.tracks = {}
    /\ mix.out = <<>>

(***************************************************************************)
(* Claims about Oscillator.generate.                                       *)
(***************************************************************************)
Oscillated == mix.phase = "oscillated"

\* C21 as stated: the buffer has round(sample_rate * duration) samples.
C21_LengthAsStated ==
    Oscillated =>
        LET x == SampleRate * mix.duration
        IN  /\ 2 * Abs(100 * Len(mix.out) - x) <= 100
            /\ (2 * Abs(100 * Len(mix.out) - x) = 100 => Len(mix.out) % 2 = 0)

\* C21: for every waveform and every duration >= 0 the buffer has
\* int(sample_rate * duration) samples, the product cut to a whole number.
C21_Length ==
    Oscillated =>
        /\ 100 * Len(mix.out) <= SampleRate * mix.duration
        /\ SampleRate * mix.duration < 100 * (Len(mix.out) + 1)

\* a call whose duration covers more than half a sample beyond a whole number
\* of samples returned a buffer that is not empty
C21_Witness ==
    /\ Oscillated
    /\ (SampleRate * mix.duration) % 100 > 50
    /\ Len(mix.out) > 0
    /\ mix.waveform = "noise"

(***************************************************************************)
(* Claims about the dataset loading logic.                                 *)
(***************************************************************************)
\* the columns are 512 frames: a run of consecutive input frames when the
\* input has n >= 512 frames, all n frames followed by padding otherwise
WindowOf(cols, n) ==
    /\ Len(cols) = 512
    /\ n >= 512 => /\ cols[1] \in 1 .. (n - 511)
                   /\ \A j \in 1 .. 512 : cols[j] = cols[1] + j - 1
    /\ n < 512 => \A j \in 1 .. 512 : cols[j] = IF j <= n THEN j ELSE 0

\* C22: a piano roll of up to 128 rows and any number of frames is loaded as
\* an array of 88 rows, row i showing pitch 21 + i - 1 of the input (zeros
\* when the input has no such row), and 512 columns, a 512-frame window of
\* the input when it has at least 512 frames and the input followed by zeros
\* otherwise; the loader of the training script returns 88 x 512 as well.
C22_Shape ==
    /\ mix.phase = "loaded" =>
          /\ Len(mix.rows) = 88
          /\ \A i \in 1 .. 88 :
                mix.rows[i] = IF 21 + i <= mix.n_rows THEN 21 + i ELSE 0
          /\ WindowOf(mix.cols, mix.n_frames)
    /\ (mix.phase = "fast_loaded" /\ ~mix.none) =>
          /\ Len(mix.rows) = 88
          /\ WindowOf(mix.cols, ((mix.end_time * 4) \div 100) + 1)

\* a roll of fewer than 109 rows and more than 512 frames was loaded, its
\* window starting after the first frame
C22_Witness ==
    /\ mix.phase = "loaded"
    /\ mix.n_rows \in 22 .. 108
    /\ mix.n_frames > 512
    /\ mix.cols[1] > 1

\* the training script's loader returned a padded roll
C22_WitnessFast ==
    /\ mix.phase = "fast_loaded"
    /\ ~mix.none
    /\ mix.cols[512] = 0

(***************************************************************************)
(* Claims about the build section and the dynamics of the arrangement.     *)
(***************************************************************************)
\* the pattern of build bar bi (0..3) of the arrangement
BuildGrid(bi) == render.sections[bi + 2].grid

\* the steps of a 16-step pattern that hold a hit of the drum
StepsOf(g, drum) == {s \in 0 .. 15 : g[<<s, drum>>] > 0}
HitCount(g, drum) == Cardinality(StepsOf(g, drum))
TotalHits(g) == Cardinality({c \in Cells(16) : g[c] > 0})

\* C23 as stated: the kick, closed hi-hat and snare counts each increase from
\* one build bar to the next, and the last build bar has a crash on step 15.
C23_DensityAsStated ==
    Arranged =>
        /\ \A bi \in 0 .. 2 :
              \A drum \in {KICK, HIHAT_CLOSED, SNARE} :
                 HitCount(BuildGrid(bi), drum) < HitCount(BuildGrid(bi + 1), drum)
        /\ BuildGrid(3)[<<15, CRASH>>] > 0

\* C23: over the build bars the closed hi-hat count increases bar by bar
\* (4, 6, 8, 16) and so does the number of hits as a whole; the kick stays on
\* the four quarter notes and gets louder; the snare is absent from the first
\* two bars and then has 8 and 16 hits; only the last bar has a crash, on
\* step 15.
C23_Density ==
    Arranged =>
        /\ \A bi \in 0 .. 2 :
              /\ HitCount(BuildGrid(bi), HIHAT_CLOSED)
                     < HitCount(BuildGrid(bi + 1), HIHAT_CLOSED)
              /\ TotalHits(BuildGrid(bi)) < TotalHits(BuildGrid(bi + 1))
              /\ HitCount(BuildGrid(bi), SNARE) <= HitCount(BuildGrid(bi + 1), SNARE)
              /\ BuildGrid(bi)[<<0, KICK>>] < BuildGrid(bi + 1)[<<0, KICK>>]
              /\ StepsOf(BuildGrid(bi), CRASH) = {}
        /\ \A bi \in 0 .. 3 : StepsOf(BuildGrid(bi), KICK) = {0, 4, 8, 12}
        /\ [bi \in 0 .. 3 |-> HitCount(BuildGrid(bi), HIHAT_CLOSED)]
               = (0 :> 4 @@ 1 :> 6 @@ 2 :> 8 @@ 3 :> 16)
        /\ [bi \in 0 .. 3 |-> HitCount(BuildGrid(bi), SNARE)]
               = (0 :> 0 @@ 1 :> 0 @@ 2 :> 8 @@ 3 :> 16)
        /\ StepsOf(BuildGrid(3), CRASH) = {15}

\* an arrangement whose last build bar holds 16 hi-hats, 16 snares, 4 kicks
\* and the crash
C23_Witness ==
    /\ Arranged
    /\ TotalHits(BuildGrid(3)) = 37
    /\ BuildGrid(3)[<<15, CRASH>>] = 120

\* the velocities of the notes of a list that start in bar b
VelocitiesOfBar(notes, b) == {notes[i][4] : i \in NotesOfBar(notes, b)}

\* C24: the bass velocity of build bars 4-7 is 0.40, 0.52, 0.64, 0.76; the
\* lead velocity of the build bars increases with the bar; in every drop bar
\* the bass notes on even 8th-note positions have velocity 0.9 and those on
\* odd positions 0.5; the drop's lead velocity is not lower than any intro or
\* build lead velocity.
C24_Dynamics ==
    Arranged =>
        LET bass == render.bass_notes
            lead == render.lead_notes
        IN  /\ \A b \in 4 .. 7 :
                  /\ VelocitiesOfBar(bass, b) = {40 + 12 * (b - 4)}
                  /\ Cardinality(VelocitiesOfBar(lead, b)) = 1
            /\ \A b \in 4 .. 6 :
                  \A v \in VelocitiesOfBar(lead, b), w \in VelocitiesOfBar(lead, b + 1) :
                     v < w
            /\ \A b \in 8 .. 15 :
                  \A i \in NotesOfBar(bass, b) :
                     LET pos == (bass[i][2] - b * 800) \div 100
                     IN  bass[i][4] = IF pos % 2 = 0 THEN 90 ELSE 50
            /\ \A b \in 8 .. 15, c \in 0 .. 7 :
                  \A v \in VelocitiesOfBar(lead, b), w \in VelocitiesOfBar(lead, c) :
                     v >= w

\* an arrangement whose last build bar has the bass at 0.76 and the lead at
\* 0.65 and whose drop has the lead at 0.7
C24_Witness ==
    /\ Arranged
    /\ VelocitiesOfBar(render.bass_notes, 7) = {76}
    /\ VelocitiesOfBar(render.lead_notes, 7) = {65}
    /\ VelocitiesOfBar(render.lead_notes, 15) = {70}
    /\ VelocitiesOfBar(render.bass_notes, 15) = {50, 90}

(***************************************************************************)
(* Claims about EDMPatternLibrary.drop_pattern.                            *)
(***************************************************************************)
\* drop_pattern(16) returned
DropOf16 == mix.phase = "drop_pattern" /\ mix.steps = 16

\* the drums that have a hit in the grid
DrumsHit(g, steps) == {c[2] : c \in {d \in Cells(steps) : g[d] > 0}}

\* C25 as stated: drop_pattern(16) has a hit of each of kick, snare, closed
\* hi-hat, clap and crash, the kick on every quarter note and the snare on
\* steps 4 and 12, every hit at velocity 100 or more, and draws no random
\* number.
C25_DropAsStated ==
    DropOf16 =>
        /\ {KICK, SNARE, HIHAT_CLOSED, CLAP, CRASH} \subseteq DrumsHit(mix.grid, 16)
        /\ StepsOf(mix.grid, KICK) = {0, 4, 8, 12}
        /\ StepsOf(mix.grid, SNARE) = {4, 12}
        /\ \A c \in Cells(16) : mix.grid[c] > 0 => mix.grid[c] >= 100
        /\ rng = mix.rng0

\* C25: drop_pattern(16) has hits of kick, snare, closed hi-hat and crash and
\* of no other drum (no clap): the kick on every quarter note at 127, the
\* snare on steps 4 and 12 at 120, the closed hi-hat on every even step at 100
\* and the crash on step 0 at 120; every hit has velocity 100 or more and the
\* call draws no random number.
C25_Drop ==
    DropOf16 =>
        /\ DrumsHit(mix.grid, 16) = {KICK, SNARE, HIHAT_CLOSED, CRASH}
        /\ StepsOf(mix.grid, KICK) = {0, 4, 8, 12}
        /\ StepsOf(mix.grid, SNARE) = {4, 12}
        /\ StepsOf(mix.grid, HIHAT_CLOSED) = {0, 2, 4, 6, 8, 10, 12, 14}
        /\ StepsOf(mix.grid, CRASH) = {0}
        /\ \A c \in Cells(16) : mix.grid[c] > 0 => mix.grid[c] >= 100
        /\ mix.grid[<<0, KICK>>] = 127
        /\ mix.grid[<<4, SNARE>>] = 120
        /\ mix.grid[<<0, CRASH>>] = 120
        /\ rng = mix.rng0

\* drop_pattern(16) returned a pattern of 15 hits, called in a generator state
\* other than the first
C25_Witness ==
    /\ DropOf16
    /\ TotalHits(mix.grid) = 15
    /\ mix.rng0 > 0

(***************************************************************************)
(* Claims about PatternVariation.velocity_variation.                       *)
(***************************************************************************)
\* C26: velocity_variation(P, a) has a hit at exactly the cells where P has
\* one, and every hit velocity v in 1..127 becomes a velocity w with
\* |w - v| <= a * v and 0 < w <= 127, for every amount a in [0, 1] and every
\* random outcome.
C26_BoundedJitter ==
    mix.phase = "varied" =>
        \A c \in Cells(MaxSteps) :
            /\ (mix.varied[c] > 0) <=> (mix.grid[c] > 0)
            /\ mix.grid[c] > 0 =>
                  /\ 100 * Abs(mix.varied[c] - mix.grid[c]) <= mix.amount * mix.grid[c]
                  /\ mix.varied[c] > 0
                  /\ mix.varied[c] <= 127

\* what the code keeps: the same cells have hits, every new velocity is in
\* 20..127, and a velocity of 20 or more moves by at most a * v
C26_JitterAboveFloor ==
    mix.phase = "varied" =>
        \A c \in Cells(MaxSteps) :
            /\ (mix.varied[c] > 0) <=> (mix.grid[c] > 0)
            /\ mix.grid[c] > 0 =>
                  /\ mix.varied[c] \in 20 .. 127
                  /\ mix.grid[c] >= 20 =>
                        100 * Abs(mix.varied[c] - mix.grid[c]) <= mix.amount * mix.grid[c]

(***************************************************************************)
(* Claims about sidechain compression.                                     *)
(***************************************************************************)
\* C27: sidechain_compress returns the target buffer multiplied sample-wise by
\* a gain: the output has the target's length whether the trigger is shorter,
\* as long or longer, and every gain is greater than 0 and at most 1.
C27_Sidechain ==
    mix.phase = "sidechained" =>
        /\ Len(mix.out) = Len(mix.audio)
        /\ Len(mix.gain) = Len(mix.out)
        /\ \A k \in 1 .. Len(mix.out) :
              /\ mix.gain[k] > 0
              /\ mix.gain[k] <= 1000
              /\ mix.out[k] = TruncDiv(mix.audio[k] * mix.gain[k], 1000)

\* what the code keeps: the output is the first min(len(audio), len(trigger))
\* samples of the target, each multiplied by a gain in [0.1, 1]
C27_SidechainOfCommonPrefix ==
    mix.phase = "sidechained" =>
        /\ Len(mix.out) = Min2(Len(mix.audio), Len(mix.trigger))
        /\ Len(mix.gain) = Len(mix.out)
        /\ \A k \in 1 .. Len(mix.out) :
              /\ mix.gain[k] >= 100
              /\ mix.gain[k] <= 1000
              /\ mix.out[k] = TruncDiv(mix.audio[k] * mix.gain[k], 1000)

(***************************************************************************)
(* Claims about the job API.                                               *)
(***************************************************************************)
\* C28: every job in job_store, whichever endpoint created it, has at every
\* moment a status that JobResponse accepts (queued, running, completed or
\* failed), so GET training-status/{job_id} can report every existing job.
C28_StatusAccepted ==
    /\ \A j \in JobIds :
          InJobStore(j) => mix.job_store[j].status \in JobResponseStatuses
    /\ mix.response.op = "get_training_status" => mix.response.code \in {200, 404}

\* what the code keeps: the jobs of save-spotify-tracks, generate-music and
\* pipeline/full always have an accepted status
C28_BackgroundJobsAccepted ==
    \A j \in JobIds :
        InJobStore(j) /\ mix.job_store[j].type # "training" =>
            mix.job_store[j].status \in JobResponseStatuses

\* C29: in every interleaving of requests, DELETE included, with a queued
\* job's background task, the task ends without an unhandled exception, a
\* deleted job is never in job_store again, and a job that still exists when
\* its task has ended is completed or failed.
C29_TaskAndDelete ==
    \A j \in JobIds :
        /\ mix.tasks[j].pc # "raised"
        /\ j \in mix.deleted => ~InJobStore(j)
        /\ mix.tasks[j].pc = "ended" /\ InJobStore(j) =>
              mix.job_store[j].status \in {"completed", "failed"}

\* what the code keeps: a deleted job is never in job_store again, a job whose
\* task has ended is completed or failed, and a task raises only when its job
\* was deleted before the task started
C29_DeletedStaysDeleted ==
    \A j \in JobIds :
        /\ j \in mix.deleted => ~InJobStore(j)
        /\ mix.tasks[j].pc = "ended" /\ InJobStore(j) =>
              mix.job_store[j].status \in {"completed", "failed"}
        /\ mix.tasks[j].pc = "raised" => j \in mix.deleted

(***************************************************************************)
(* Claims about the MIDI export.                                           *)
(***************************************************************************)
\* the absolute time of message k: the sum of the deltas up to and with it
RECURSIVE AbsoluteTime(_, _)
AbsoluteTime(track, k) == IF k = 0 THEN 0 ELSE track[k].time + AbsoluteTime(track, k - 1)

\* the positions of the note-ons of the track, in order
NoteOns(track) == SelectSeq([k \in 1 .. Len(track) |-> k], LAMBDA k : track[k].type = "note_on")

\* the note-on of every hit of the bars below n is at (b * steps + s) *
\* ticks_per_step, and no delta is negative
TimesAsWritten(n) ==
    LET hits == GetHits(mix.grid, mix.steps)
        ons == NoteOns(mix.track)
    IN  /\ Len(ons) = mix.bars * Len(hits)
        /\ \A b \in 0 .. (n - 1) : \A h \in 1 .. Len(hits) :
              LET k == ons[b * Len(hits) + h]
              IN  /\ mix.track[k].note = GetMidiNote(hits[h].drum_type)
                  /\ AbsoluteTime(mix.track, k)
                        = (b * mix.steps + hits[h].step) * TicksPerStep(mix.steps)
        /\ \A k \in 1 .. Len(mix.track) : mix.track[k].time >= 0

\* C30: pattern_to_midi(P, file, bars = n) without swing and humanization
\* writes, for every hit at step s and every repetition b in 0..n-1, a note-on
\* whose absolute time is (b * steps + s) * ticks_per_step, so each repetition
\* starts one bar after the one before; no delta time is negative.
C30_AbsoluteTimes == mix.phase = "midi_written" => TimesAsWritten(mix.bars)

\* what the code keeps: the note-ons of the first repetition are at
\* s * ticks_per_step, there is one note-on per hit and repetition, and no
\* delta time is negative
C30_FirstBarTimes == mix.phase = "midi_written" => TimesAsWritten(1)

====
